---- MODULE Spec2Model ----
(***************************************************************************)
(* HelloTriangleApplication (Vulkan tutorial, "fixed functions" stage):    *)
(* device selection, swap-chain negotiation, dependency-ordered object     *)
(* construction by initVulkan and teardown by cleanup, as driven by main.  *)
(*                                                                         *)
(* The Vulkan driver and GLFW are the environment: what they report        *)
(* (devices, queue families, capabilities, results of create calls) is     *)
(* chosen nondeterministically from bounded sets.                          *)
(***************************************************************************)
EXTENDS Integers, Sequences, FiniteSets, TLC

(***************************************************************************)
(* Bounds of the model.                                                    *)
(***************************************************************************)
MaxFamilies == 3      \* longest queue-family list given to findQueueFamilies
MaxDevices == 2       \* longest list of enumerated physical devices
MaxImages == 3        \* most images a created swap chain reports

(***************************************************************************)
(* uint32_t.  A value is kept as two 16-bit halves, so that the full       *)
(* 32-bit range, UINT32_MAX and the wrap of + 1 are exact.                 *)
(***************************************************************************)
U32(n) == [hi |-> n \div (2^16), lo |-> n % (2^16)]

UINT32_MAX == [hi |-> 2^16 - 1, lo |-> 2^16 - 1]

U32Lt(a, b) == a.hi < b.hi \/ (a.hi = b.hi /\ a.lo < b.lo)

U32Gt(a, b) == U32Lt(b, a)

U32Le(a, b) == ~U32Lt(b, a)

\* a + 1 in uint32_t arithmetic: modulo 2^32
U32Inc(a) ==
    IF a.lo < 2^16 - 1 THEN [hi |-> a.hi, lo |-> a.lo + 1]
    ELSE [hi |-> (a.hi + 1) % (2^16), lo |-> 0]

ClampUpperOnly(v, lo, hi) == IF U32Lt(hi, v) THEN hi ELSE v

\* std::clamp(v, lo, hi): (v < lo) ? lo : (hi < v) ? hi : v
clamp(v, lo, hi) == IF U32Lt(v, lo) THEN lo ELSE IF U32Lt(hi, v) THEN hi ELSE v

Extent2D(w, h) == [width |-> w, height |-> h]

(***************************************************************************)
(* Program constants.                                                      *)
(***************************************************************************)
WIDTH == 800
HEIGHT == 600

\* const std::vector<const char*> deviceExtensions
deviceExtensions == <<"VK_KHR_swapchain">>

VK_NULL_HANDLE == 0

SeqsUpTo(S, n) == UNION {[1..k -> S] : k \in 0..n}

Range(s) == {s[k] : k \in 1..Len(s)}

(***************************************************************************)
(* QueueFamilyIndices: each std::optional<uint32_t> is the empty set or a  *)
(* singleton.  inspected counts the families the scan looked at.           *)
(***************************************************************************)
NoIndices == [graphicsFamily |-> {}, presentFamily |-> {}, inspected |-> 0]

has_value(opt) == opt # {}

value(opt) == CHOOSE x \in opt : TRUE

GraphicsOnlyComplete(indices) == has_value(indices.graphicsFamily)

isComplete(indices) == has_value(indices.graphicsFamily) /\ has_value(indices.presentFamily)

(***************************************************************************)
(* What the driver reports.  A queue family is its graphics bit and the    *)
(* answer of vkGetPhysicalDeviceSurfaceSupportKHR for the surface.  A      *)
(* physical device is its queue families, its extension names, the surface *)
(* formats and present modes it reports for the surface, and the surface   *)
(* capabilities.                                                           *)
(***************************************************************************)
QueueFamily(g, p) == [graphics |-> g, present |-> p]

QueueFamilyKinds == {QueueFamily(g, p) : g \in BOOLEAN, p \in BOOLEAN}

SurfaceFormat(f, c) == [format |-> f, colorSpace |-> c]

Capabilities(minCount, maxCount, cur, minExt, maxExt) ==
    [minImageCount |-> minCount, maxImageCount |-> maxCount, currentExtent |-> cur,
     minImageExtent |-> minExt, maxImageExtent |-> maxExt]

PhysicalDevice(families, extensions, formats, modes, caps) ==
    [queueFamilies |-> families, extensions |-> extensions, formats |-> formats,
     presentModes |-> modes, capabilities |-> caps]

(***************************************************************************)
(* findQueueFamilies: the loop over the queue families, from index i on.   *)
(***************************************************************************)
RECURSIVE FirstWinsScan(_, _, _)
FirstWinsScan(queueFamilies, i, indices) ==
    IF i >= Len(queueFamilies) THEN indices
    ELSE LET queueFamily == queueFamilies[i + 1]
             g == IF queueFamily.graphics /\ ~has_value(indices.graphicsFamily)
                  THEN [indices EXCEPT !.graphicsFamily = {i}] ELSE indices
             p == IF queueFamily.present /\ ~has_value(g.presentFamily)
                  THEN [g EXCEPT !.presentFamily = {i}] ELSE g
             q == [p EXCEPT !.inspected = i + 1]
         IN  IF isComplete(q) THEN q ELSE FirstWinsScan(queueFamilies, i + 1, q)

RECURSIVE NoEarlyExitScan(_, _, _)
NoEarlyExitScan(queueFamilies, i, indices) ==
    IF i >= Len(queueFamilies) THEN indices
    ELSE LET queueFamily == queueFamilies[i + 1]
             g == IF queueFamily.graphics
                  THEN [indices EXCEPT !.graphicsFamily = {i}] ELSE indices
             p == IF queueFamily.present
                  THEN [g EXCEPT !.presentFamily = {i}] ELSE g
             q == [p EXCEPT !.inspected = i + 1]
         IN  NoEarlyExitScan(queueFamilies, i + 1, q)

RECURSIVE scanQueueFamilies(_, _, _)
scanQueueFamilies(queueFamilies, i, indices) ==
    IF i >= Len(queueFamilies) THEN indices
    ELSE LET queueFamily == queueFamilies[i + 1]
             \* if (queueFamily.queueFlags & VK_QUEUE_GRAPHICS_BIT) indices.graphicsFamily = i;
             g == IF queueFamily.graphics
                  THEN [indices EXCEPT !.graphicsFamily = {i}] ELSE indices
             \* if (presentSupport) indices.presentFamily = i;
             p == IF queueFamily.present
                  THEN [g EXCEPT !.presentFamily = {i}] ELSE g
             q == [p EXCEPT !.inspected = i + 1]
         IN  \* if (indices.isComplete()) break; i++;
             IF isComplete(q) THEN q ELSE scanQueueFamilies(queueFamilies, i + 1, q)

findQueueFamilies(device) == scanQueueFamilies(device.queueFamilies, 0, NoIndices)

(***************************************************************************)
(* checkDeviceExtensionSupport: erase every available name from the set of *)
(* required names; supported iff nothing is left.                          *)
(***************************************************************************)
\* compares the counts instead of the names
CountsSuffice(device) == Len(device.extensions) >= Len(deviceExtensions)

RECURSIVE eraseAvailable(_, _, _)
eraseAvailable(requiredExtensions, availableExtensions, k) ==
    IF k > Len(availableExtensions) THEN requiredExtensions
    ELSE eraseAvailable(requiredExtensions \ {availableExtensions[k]}, availableExtensions, k + 1)

checkDeviceExtensionSupport(device) ==
    eraseAvailable(Range(deviceExtensions), device.extensions, 1) = {}

(***************************************************************************)
(* querySwapChainSupport: capabilities, formats and present modes of the   *)
(* device for the surface; a list of count 0 stays empty.                  *)
(***************************************************************************)
querySwapChainSupport(device) ==
    [capabilities |-> device.capabilities,
     formats |-> IF Len(device.formats) # 0 THEN device.formats ELSE <<>>,
     presentModes |-> IF Len(device.presentModes) # 0 THEN device.presentModes ELSE <<>>]

GraphicsSuffices(device) ==
    LET indices == findQueueFamilies(device)
        extensionsSupported == checkDeviceExtensionSupport(device)
        swapChainAdequate ==
            IF extensionsSupported
            THEN LET swapChainSupport == querySwapChainSupport(device)
                 IN  swapChainSupport.formats # <<>> /\ swapChainSupport.presentModes # <<>>
            ELSE FALSE
    IN  has_value(indices.graphicsFamily) /\ extensionsSupported /\ swapChainAdequate

IgnoresSwapChainAdequacy(device) ==
    LET indices == findQueueFamilies(device)
        extensionsSupported == checkDeviceExtensionSupport(device)
    IN  isComplete(indices) /\ extensionsSupported

IgnoresQueueCoverage(device) ==
    LET extensionsSupported == checkDeviceExtensionSupport(device)
        swapChainAdequate ==
            IF extensionsSupported
            THEN LET swapChainSupport == querySwapChainSupport(device)
                 IN  swapChainSupport.formats # <<>> /\ swapChainSupport.presentModes # <<>>
            ELSE FALSE
    IN  extensionsSupported /\ swapChainAdequate

isDeviceSuitable(device) ==
    LET indices == findQueueFamilies(device)
        extensionsSupported == checkDeviceExtensionSupport(device)
        swapChainAdequate ==
            IF extensionsSupported
            THEN LET swapChainSupport == querySwapChainSupport(device)
                 IN  swapChainSupport.formats # <<>> /\ swapChainSupport.presentModes # <<>>
            ELSE FALSE
    IN  isComplete(indices) /\ extensionsSupported /\ swapChainAdequate

(***************************************************************************)
(* pickPhysicalDevice: the loop over the enumerated devices from position  *)
(* k on.  A device handle is its position in the enumeration (1-based);    *)
(* verdicts logs what isDeviceSuitable returned for each device examined.  *)
(***************************************************************************)
RECURSIVE LastSuitableScan(_, _, _, _)
LastSuitableScan(devs, k, found, verdicts) ==
    IF k > Len(devs) THEN [physicalDevice |-> found, verdicts |-> verdicts]
    ELSE IF isDeviceSuitable(devs[k])
         THEN LastSuitableScan(devs, k + 1, k, Append(verdicts, TRUE))
         ELSE LastSuitableScan(devs, k + 1, found, Append(verdicts, FALSE))

RECURSIVE scanDevices(_, _, _, _)
scanDevices(devs, k, found, verdicts) ==
    IF k > Len(devs) THEN [physicalDevice |-> found, verdicts |-> verdicts]
    ELSE IF isDeviceSuitable(devs[k])
         THEN [physicalDevice |-> k, verdicts |-> Append(verdicts, TRUE)]   \* break
         ELSE scanDevices(devs, k + 1, found, Append(verdicts, FALSE))

(***************************************************************************)
(* Surface configuration negotiation.                                      *)
(***************************************************************************)
RECURSIVE FindByFormatOnly(_, _)
FindByFormatOnly(availableFormats, k) ==
    IF k > Len(availableFormats) THEN availableFormats[1]
    ELSE IF availableFormats[k].format = "B8G8R8A8_SRGB"
         THEN availableFormats[k]
         ELSE FindByFormatOnly(availableFormats, k + 1)

RECURSIVE findPreferredFormat(_, _)
findPreferredFormat(availableFormats, k) ==
    IF k > Len(availableFormats) THEN availableFormats[1]
    ELSE IF availableFormats[k].format = "B8G8R8A8_SRGB"
            /\ availableFormats[k].colorSpace = "SRGB_NONLINEAR"
         THEN availableFormats[k]
         ELSE findPreferredFormat(availableFormats, k + 1)

chooseSwapSurfaceFormat(availableFormats) == findPreferredFormat(availableFormats, 1)

MailboxUnconditionally(availablePresentModes) == "MAILBOX"

FirstAvailableMode(availablePresentModes) == availablePresentModes[1]

RECURSIVE findMailbox(_, _)
findMailbox(availablePresentModes, k) ==
    IF k > Len(availablePresentModes) THEN "FIFO"
    ELSE IF availablePresentModes[k] = "MAILBOX" THEN availablePresentModes[k]
         ELSE findMailbox(availablePresentModes, k + 1)

chooseSwapPresentMode(availablePresentModes) == findMailbox(availablePresentModes, 1)

\* fb is what glfwGetFramebufferSize reports (two ints >= 0)
BothSentinelExtent(capabilities, fb) ==
    IF capabilities.currentExtent # Extent2D(UINT32_MAX, UINT32_MAX)
    THEN capabilities.currentExtent
    ELSE Extent2D(
            clamp(U32(fb.width), capabilities.minImageExtent.width,
                  capabilities.maxImageExtent.width),
            clamp(U32(fb.height), capabilities.minImageExtent.height,
                  capabilities.maxImageExtent.height))

chooseSwapExtent(capabilities, fb) ==
    IF capabilities.currentExtent.width # UINT32_MAX
    THEN capabilities.currentExtent
    ELSE Extent2D(
            clamp(U32(fb.width), capabilities.minImageExtent.width,
                  capabilities.maxImageExtent.width),
            clamp(U32(fb.height), capabilities.minImageExtent.height,
                  capabilities.maxImageExtent.height))

UncappedImageCount(capabilities) == U32Inc(capabilities.minImageCount)

\* uint32_t imageCount = minImageCount + 1; if (maxImageCount > 0 && imageCount > maxImageCount) ...
requestedImageCount(capabilities) ==
    LET imageCount == U32Inc(capabilities.minImageCount)
    IN  IF U32Gt(capabilities.maxImageCount, U32(0))
           /\ U32Gt(imageCount, capabilities.maxImageCount)
        THEN capabilities.maxImageCount
        ELSE imageCount

AlwaysExclusive(indices) ==
    [imageSharingMode |-> "EXCLUSIVE", queueFamilyIndexCount |-> 0,
     pQueueFamilyIndices |-> <<>>]

\* the sharing-mode part of VkSwapchainCreateInfoKHR
sharingMode(indices) ==
    LET queueFamilyIndices == <<value(indices.graphicsFamily), value(indices.presentFamily)>>
    IN  IF indices.graphicsFamily # indices.presentFamily
        THEN [imageSharingMode |-> "CONCURRENT", queueFamilyIndexCount |-> 2,
              pQueueFamilyIndices |-> queueFamilyIndices]
        ELSE [imageSharingMode |-> "EXCLUSIVE", queueFamilyIndexCount |-> 0,
              pQueueFamilyIndices |-> <<>>]

(***************************************************************************)
(* State.                                                                  *)
(*   pc          position of the single thread in main / run / initVulkan  *)
(*   exception   what() of the std::runtime_error in flight, or "none"     *)
(*   exitStatus  value returned by main, "none" while it runs              *)
(*   calls       the Vulkan create / allocate / destroy calls that         *)
(*               succeeded so far, in order                                *)
(*   indices     the QueueFamilyIndices local of the latest                *)
(*               findQueueFamilies call                                    *)
(*   verdicts    what isDeviceSuitable returned, per device examined       *)
(*   extensionsSupported  what checkDeviceExtensionSupport returned, per    *)
(*               device examined                                           *)
(*   queries     the querySwapChainSupport calls made so far: the device    *)
(*               asked about and the details returned                      *)
(*   reportedImageCount  the number of images vkGetSwapchainImagesKHR       *)
(*               reports for the created chain, 0 while there is none      *)
(*   imageViewInfos, framebufferInfos  the create-info of each             *)
(*               vkCreateImageView / vkCreateFramebuffer call issued       *)
(*   surfaceFormat  the VkSurfaceFormatKHR local of createSwapChain         *)
(* The other variables are the members of HelloTriangleApplication, the    *)
(* create-info structures handed to the driver, and what the driver and    *)
(* GLFW report.  An optional or a handle is the empty set (unset, null)    *)
(* or a singleton.                                                         *)
(***************************************************************************)
VARIABLES pc, exception, exitStatus, calls,
          enableValidationLayers, devices, framebufferSize,
          window, windowShouldClose,
          physicalDevice, verdicts, extensionsSupported, queries, indices,
          queueCreateInfos, graphicsQueue, presentQueue,
          surfaceFormat, swapChainCreateInfo, reportedImageCount,
          swapChainImages, swapChainImageFormat, swapChainExtent,
          swapChainImageViews, imageViewInfos, renderPassInfo,
          swapChainFramebuffers, framebufferInfos,
          poolInfo, commandBuffer

ctlVars == <<pc, exception, exitStatus>>
envVars == <<enableValidationLayers, devices, framebufferSize>>
winVars == <<window, windowShouldClose>>
selVars == <<physicalDevice, verdicts, extensionsSupported, queries>>
devVars == <<queueCreateInfos, graphicsQueue, presentQueue>>
swapVars == <<surfaceFormat, swapChainCreateInfo, reportedImageCount,
              swapChainImages, swapChainImageFormat, swapChainExtent>>
infoVars == <<imageViewInfos, framebufferInfos>>
objVars == <<swapChainImageViews, renderPassInfo, swapChainFramebuffers, poolInfo, commandBuffer,
             infoVars>>

vars == <<ctlVars, calls, envVars, winVars, selVars, indices, devVars, swapVars, objVars>>

Ev(op, obj, n) == [op |-> op, obj |-> obj, n |-> n]
Create(obj, n) == Ev("create", obj, n)
Destroy(obj, n) == Ev("destroy", obj, n)

\* what() of the exception std::optional::value() throws on an empty optional
bad_optional_access == "bad optional access"

\* throw std::runtime_error(msg): control reaches the handler in main
Throw(msg) == pc' = "catch" /\ exception' = msg /\ UNCHANGED exitStatus

Goto(next) == pc' = next /\ UNCHANGED <<exception, exitStatus>>

(***************************************************************************)
(* Inputs.                                                                 *)
(***************************************************************************)
DefaultCaps ==
    Capabilities(U32(1), U32(0), Extent2D(U32(WIDTH), U32(HEIGHT)),
                 Extent2D(U32(1), U32(1)), Extent2D(U32(1024), U32(1024)))

BGRA == SurfaceFormat("B8G8R8A8_SRGB", "SRGB_NONLINEAR")
UNORM == SurfaceFormat("B8G8R8A8_UNORM", "SRGB_NONLINEAR")

\* one family for both roles
DevUnified ==
    PhysicalDevice(<<QueueFamily(TRUE, TRUE)>>, deviceExtensions, <<UNORM, BGRA>>,
                   <<"FIFO", "MAILBOX">>, DefaultCaps)
\* graphics and presentation on different families
DevSplit ==
    PhysicalDevice(<<QueueFamily(TRUE, FALSE), QueueFamily(FALSE, TRUE)>>, deviceExtensions,
                   <<UNORM>>, <<"FIFO">>, DefaultCaps)
\* no swap-chain extension
DevNoExt ==
    PhysicalDevice(<<QueueFamily(TRUE, TRUE)>>, <<"VK_KHR_maintenance1">>, <<BGRA>>,
                   <<"FIFO">>, DefaultCaps)
\* nothing can present to the surface
DevNoPresent ==
    PhysicalDevice(<<QueueFamily(TRUE, FALSE)>>, deviceExtensions, <<BGRA>>,
                   <<"FIFO">>, DefaultCaps)

\* no surface format for the surface
DevNoFormats ==
    PhysicalDevice(<<QueueFamily(TRUE, TRUE)>>, deviceExtensions, <<>>, <<"FIFO">>, DefaultCaps)

LifecyclePool == {DevUnified, DevSplit, DevNoExt, DevNoPresent, DevNoFormats}

NoExtent == Extent2D(U32(0), U32(0))

\* the members as the constructor leaves them, before run()
Constructed ==
    /\ exception = "none"
    /\ exitStatus = "none"
    /\ windowShouldClose = FALSE
    /\ physicalDevice = VK_NULL_HANDLE
    /\ verdicts = <<>>
    /\ extensionsSupported = <<>>
    /\ queries = <<>>
    /\ indices = NoIndices
    /\ queueCreateInfos = <<>>
    /\ graphicsQueue = {}
    /\ presentQueue = {}
    /\ surfaceFormat = {}
    /\ swapChainCreateInfo = {}
    /\ reportedImageCount = 0
    /\ swapChainImages = <<>>
    /\ swapChainImageFormat = "UNDEFINED"
    /\ swapChainExtent = NoExtent
    /\ swapChainImageViews = <<>>
    /\ imageViewInfos = <<>>
    /\ renderPassInfo = {}
    /\ swapChainFramebuffers = <<>>
    /\ framebufferInfos = <<>>
    /\ poolInfo = {}
    /\ commandBuffer = {}

Init ==
    /\ pc = "initWindow"
    /\ calls = <<>>
    /\ window = "none"
    /\ enableValidationLayers \in BOOLEAN
    /\ devices \in SeqsUpTo(LifecyclePool, MaxDevices)
    /\ framebufferSize = [width |-> WIDTH, height |-> HEIGHT]
    /\ Constructed

(***************************************************************************)
(* run(): initWindow, then the stages of initVulkan.                       *)
(***************************************************************************)
InitWindow ==
    /\ pc = "initWindow"
    /\ window' = "created"
    /\ Goto("createInstance")
    /\ UNCHANGED <<calls, envVars, windowShouldClose, selVars, indices, devVars, swapVars, objVars>>

CreateInstance ==
    /\ pc = "createInstance"
    /\ \E layerSupport \in BOOLEAN, ok \in BOOLEAN :
          IF enableValidationLayers /\ ~layerSupport
          THEN Throw("validation layers requested, but not available!") /\ UNCHANGED calls
          ELSE IF ~ok
          THEN Throw("failed to create instance!") /\ UNCHANGED calls
          ELSE Goto("setupDebugMessenger") /\ calls' = Append(calls, Create("instance", 0))
    /\ UNCHANGED <<envVars, winVars, selVars, indices, devVars, swapVars, objVars>>

SetupDebugMessenger ==
    /\ pc = "setupDebugMessenger"
    /\ \E ok \in BOOLEAN :
          IF ~enableValidationLayers
          THEN Goto("createSurface") /\ UNCHANGED calls
          ELSE IF ~ok
          THEN Throw("failed to set up debug messenger!") /\ UNCHANGED calls
          ELSE Goto("createSurface") /\ calls' = Append(calls, Create("debugMessenger", 0))
    /\ UNCHANGED <<envVars, winVars, selVars, indices, devVars, swapVars, objVars>>

CreateSurface ==
    /\ pc = "createSurface"
    /\ \E ok \in BOOLEAN :
          IF ~ok
          THEN Throw("failed to create window surface!") /\ UNCHANGED calls
          ELSE Goto("pickPhysicalDevice") /\ calls' = Append(calls, Create("surface", 0))
    /\ UNCHANGED <<envVars, winVars, selVars, indices, devVars, swapVars, objVars>>

OneErrorForBoth(devs) ==
    LET scan == scanDevices(devs, 1, VK_NULL_HANDLE, <<>>)
    IN  [physicalDevice |-> scan.physicalDevice, verdicts |-> scan.verdicts,
         exception |-> IF scan.physicalDevice = VK_NULL_HANDLE
                       THEN "failed to find a suitable GPU!" ELSE "none"]

\* the result of pickPhysicalDevice on the enumerated devices
pickPhysicalDevice(devs) ==
    IF Len(devs) = 0
    THEN [physicalDevice |-> VK_NULL_HANDLE, verdicts |-> <<>>,
          exception |-> "failed to find GPUs with Vulkan support"]
    ELSE LET scan == scanDevices(devs, 1, VK_NULL_HANDLE, <<>>)
         IN  [physicalDevice |-> scan.physicalDevice, verdicts |-> scan.verdicts,
              exception |-> IF scan.physicalDevice = VK_NULL_HANDLE
                            THEN "failed to find a suitable GPU!" ELSE "none"]

\* a call of querySwapChainSupport on device k and what it returned
Query(devs, k) == [device |-> k, details |-> querySwapChainSupport(devs[k])]

\* the calls isDeviceSuitable made for the first n devices: one for each device
\* that has the required extensions
selectionQueries(devs, n) ==
    LET examined == SelectSeq([k \in 1..n |-> k],
                              LAMBDA k : checkDeviceExtensionSupport(devs[k]))
    IN  [j \in 1..Len(examined) |-> Query(devs, examined[j])]

PickPhysicalDevice ==
    /\ pc = "pickPhysicalDevice"
    /\ LET r == pickPhysicalDevice(devices)
       IN  /\ physicalDevice' = r.physicalDevice
           /\ verdicts' = r.verdicts
           /\ extensionsSupported' = [k \in 1..Len(r.verdicts) |->
                                        checkDeviceExtensionSupport(devices[k])]
           /\ queries' = selectionQueries(devices, Len(r.verdicts))
           \* each isDeviceSuitable call starts with findQueueFamilies
           /\ indices' = IF Len(r.verdicts) = 0 THEN indices
                          ELSE findQueueFamilies(devices[Len(r.verdicts)])
           /\ IF r.exception # "none" THEN Throw(r.exception) ELSE Goto("createLogicalDevice")
    /\ UNCHANGED <<calls, envVars, winVars, devVars, swapVars, objVars>>

SortedSeq(S) ==
    CHOOSE q \in [1..Cardinality(S) -> S] :
        /\ Range(q) = S
        /\ \A a, b \in 1..Cardinality(S) : a < b => q[a] < q[b]

OneEntryPerRole ==
    /\ pc = "createLogicalDevice"
    /\ LET ind == findQueueFamilies(devices[physicalDevice])
           queueFamilies == <<value(ind.graphicsFamily), value(ind.presentFamily)>>
       IN  /\ indices' = ind
           /\ IF ~isComplete(ind)
              THEN /\ Throw(bad_optional_access)
                   /\ UNCHANGED <<calls, queueCreateInfos, graphicsQueue, presentQueue>>
              ELSE /\ queueCreateInfos' = [k \in 1..2 |->
                                             [queueFamilyIndex |-> queueFamilies[k],
                                              queueCount |-> 1]]
                   /\ \E ok \in BOOLEAN :
                         IF ~ok
                         THEN /\ Throw("failed to create logical device!")
                              /\ UNCHANGED <<calls, graphicsQueue, presentQueue>>
                         ELSE /\ Goto("createSwapChain")
                              /\ calls' = Append(calls, Create("device", 0))
                              /\ graphicsQueue' = ind.graphicsFamily
                              /\ presentQueue' = ind.presentFamily
    /\ UNCHANGED <<envVars, winVars, selVars, swapVars, objVars>>

CreateLogicalDevice ==
    /\ pc = "createLogicalDevice"
    /\ LET ind == findQueueFamilies(devices[physicalDevice])
           uniqueQueueFamilies == {value(ind.graphicsFamily), value(ind.presentFamily)}
       IN  /\ indices' = ind
           /\ IF ~isComplete(ind)
              THEN /\ Throw(bad_optional_access)
                   /\ UNCHANGED <<calls, queueCreateInfos, graphicsQueue, presentQueue>>
              ELSE /\ queueCreateInfos' = [k \in 1..Cardinality(uniqueQueueFamilies) |->
                                             [queueFamilyIndex |-> SortedSeq(uniqueQueueFamilies)[k],
                                              queueCount |-> 1]]
                   /\ \E ok \in BOOLEAN :
                         IF ~ok
                         THEN /\ Throw("failed to create logical device!")
                              /\ UNCHANGED <<calls, graphicsQueue, presentQueue>>
                         ELSE /\ Goto("createSwapChain")
                              /\ calls' = Append(calls, Create("device", 0))
                              /\ graphicsQueue' = ind.graphicsFamily
                              /\ presentQueue' = ind.presentFamily
    /\ UNCHANGED <<envVars, winVars, selVars, swapVars, objVars>>

\* what the fallback read availableFormats[0] can see: the list itself when it
\* has a first entry; for an empty vector the read is undefined, and the build
\* either sees some stray value there or is killed (<<>>: no value was read)
StrayFormats == {SurfaceFormat("UNDEFINED", "SRGB_NONLINEAR"), BGRA}

firstEntryReads(availableFormats) ==
    IF availableFormats # <<>> THEN {availableFormats}
    ELSE {<<g>> : g \in StrayFormats} \cup {<<>>}

\* the VkSwapchainCreateInfoKHR that createSwapChain fills in for a device
swapchainCreateInfo(device, fb) ==
    LET swapChainSupport == querySwapChainSupport(device)
        chosenFormat == chooseSwapSurfaceFormat(swapChainSupport.formats)
        presentMode == chooseSwapPresentMode(swapChainSupport.presentModes)
        extent == chooseSwapExtent(swapChainSupport.capabilities, fb)
        imageCount == requestedImageCount(swapChainSupport.capabilities)
        sharing == sharingMode(findQueueFamilies(device))
    IN  [minImageCount |-> imageCount,
         imageFormat |-> chosenFormat.format,
         imageExtent |-> extent,
         imageSharingMode |-> sharing.imageSharingMode,
         queueFamilyIndexCount |-> sharing.queueFamilyIndexCount,
         pQueueFamilyIndices |-> sharing.pQueueFamilyIndices,
         presentMode |-> presentMode]

\* image counts the created chain may report for a request: the request or more
ActualImageCounts(requested) == {n \in 1..MaxImages : U32Le(requested, U32(n))}

ImagesAsRequested(reported, requested) == [k \in 1..requested.lo |-> k]

\* vkGetSwapchainImagesKHR twice: imageCount is overwritten by the count the
\* chain reports, the vector is resized to it and filled with the image handles
retrieveImages(reported, requested) == [k \in 1..reported |-> k]

CreateSwapChain ==
    /\ pc = "createSwapChain"
    /\ LET swapChainSupport == querySwapChainSupport(devices[physicalDevice])
           ind == findQueueFamilies(devices[physicalDevice])
       IN  /\ queries' = Append(queries, Query(devices, physicalDevice))
           /\ \E formats \in firstEntryReads(swapChainSupport.formats) :
                 IF formats = <<>>
                 THEN /\ pc' = "exited"
                      /\ exitStatus' = "SIGSEGV"
                      /\ UNCHANGED <<exception, calls, indices, swapVars>>
                 ELSE /\ surfaceFormat' = {chooseSwapSurfaceFormat(formats)}
                      /\ indices' = ind
                      /\ IF ~isComplete(ind)
                         THEN /\ Throw(bad_optional_access)
                              /\ UNCHANGED <<calls, swapChainCreateInfo, reportedImageCount,
                                             swapChainImages, swapChainImageFormat,
                                             swapChainExtent>>
                         ELSE LET createInfo ==
                                      swapchainCreateInfo(
                                          [devices[physicalDevice] EXCEPT !.formats = formats],
                                          framebufferSize)
                              IN  /\ swapChainCreateInfo' = {createInfo}
                                  /\ \/ /\ Throw("failed to create the swap chain!")
                                        /\ UNCHANGED <<calls, reportedImageCount,
                                                       swapChainImages, swapChainImageFormat,
                                                       swapChainExtent>>
                                     \/ \E imageCount \in
                                              ActualImageCounts(createInfo.minImageCount) :
                                           /\ Goto("createImageViews")
                                           /\ calls' = Append(calls, Create("swapChain", 0))
                                           /\ reportedImageCount' = imageCount
                                           /\ swapChainImages' =
                                                  retrieveImages(imageCount,
                                                                 createInfo.minImageCount)
                                           /\ swapChainImageFormat' = createInfo.imageFormat
                                           /\ swapChainExtent' = createInfo.imageExtent
    /\ UNCHANGED <<envVars, winVars, physicalDevice, verdicts, extensionsSupported,
                   devVars, objVars>>

\* a loop of n create calls of which the first k succeed (k = n: all of them)
CreatedPrefix(obj, k) == [i \in 1..k |-> Create(obj, i)]

\* the create calls issued by such a loop: the k that succeed and the one that fails
IssuedCalls(n, k) == IF k < n THEN k + 1 ELSE n

HandlesAfter(n, k) == [i \in 1..n |-> IF i <= k THEN i ELSE VK_NULL_HANDLE]

CreateImageViews ==
    /\ pc = "createImageViews"
    /\ \E k \in 0..Len(swapChainImages) :
          /\ swapChainImageViews' = HandlesAfter(Len(swapChainImages), k)
          /\ imageViewInfos' = [i \in 1..IssuedCalls(Len(swapChainImages), k) |->
                                  [image |-> swapChainImages[i],
                                   format |-> swapChainImageFormat]]
          /\ calls' = calls \o CreatedPrefix("imageView", k)
          /\ IF k < Len(swapChainImages)
             THEN Throw("failed to create image views!")
             ELSE Goto("createRenderPass")
    /\ UNCHANGED <<envVars, winVars, selVars, indices, devVars, swapVars,
                   renderPassInfo, swapChainFramebuffers, framebufferInfos,
                   poolInfo, commandBuffer>>

RenderPassThenFramebuffers ==
    /\ pc = "createRenderPass"
    /\ \E ok \in BOOLEAN :
          IF ~ok
          THEN Throw("failed to create render pass!") /\ UNCHANGED <<calls, renderPassInfo>>
          ELSE /\ Goto("createFrameBuffers")
               /\ calls' = Append(calls, Create("renderPass", 0))
               /\ renderPassInfo' = {[attachmentCount |-> 1,
                                      format |-> swapChainImageFormat,
                                      subpassCount |-> 1]}
    /\ UNCHANGED <<envVars, winVars, selVars, indices, devVars, swapVars,
                   swapChainImageViews, swapChainFramebuffers, poolInfo, commandBuffer,
                   infoVars>>

RenderPassPreferredFormat ==
    /\ pc = "createRenderPass"
    /\ \E ok \in BOOLEAN :
          IF ~ok
          THEN Throw("failed to create render pass!") /\ UNCHANGED <<calls, renderPassInfo>>
          ELSE /\ Goto("createGraphicsPipeline")
               /\ calls' = Append(calls, Create("renderPass", 0))
               /\ renderPassInfo' = {[attachmentCount |-> 1,
                                      format |-> "B8G8R8A8_SRGB",
                                      subpassCount |-> 1]}
    /\ UNCHANGED <<envVars, winVars, selVars, indices, devVars, swapVars,
                   swapChainImageViews, swapChainFramebuffers, poolInfo, commandBuffer,
                   infoVars>>

CreateRenderPass ==
    /\ pc = "createRenderPass"
    /\ \E ok \in BOOLEAN :
          IF ~ok
          THEN Throw("failed to create render pass!") /\ UNCHANGED <<calls, renderPassInfo>>
          ELSE /\ Goto("createGraphicsPipeline")
               /\ calls' = Append(calls, Create("renderPass", 0))
               /\ renderPassInfo' = {[attachmentCount |-> 1,
                                      format |-> swapChainImageFormat,
                                      subpassCount |-> 1]}
    /\ UNCHANGED <<envVars, winVars, selVars, indices, devVars, swapVars,
                   swapChainImageViews, swapChainFramebuffers, poolInfo, commandBuffer,
                   infoVars>>

\* the calls createGraphicsPipeline completes, by the first step that fails
pipelineCalls(outcome) ==
    LET vert == Create("shaderModule", 1)
        frag == Create("shaderModule", 2)
    IN  CASE outcome = "readFile" -> <<>>
          [] outcome = "vertShaderModule" -> <<>>
          [] outcome = "fragShaderModule" -> <<vert>>
          [] outcome = "pipelineLayout" -> <<vert, frag>>
          [] outcome = "pipeline" -> <<vert, frag, Create("pipelineLayout", 0)>>
          [] OTHER -> <<vert, frag, Create("pipelineLayout", 0), Create("pipeline", 0),
                        Destroy("shaderModule", 2), Destroy("shaderModule", 1)>>

pipelineError(outcome) ==
    CASE outcome = "readFile" -> "failed to open file!"
      [] outcome = "vertShaderModule" -> "failed to create shader module!"
      [] outcome = "fragShaderModule" -> "failed to create shader module!"
      [] outcome = "pipelineLayout" -> "failed to create pipeline layout!"
      [] outcome = "pipeline" -> "failed to create graphics pipeline!"
      [] OTHER -> "none"

PipelineOutcomes ==
    {"readFile", "vertShaderModule", "fragShaderModule", "pipelineLayout", "pipeline", "ok"}

CreateGraphicsPipeline ==
    /\ pc = "createGraphicsPipeline"
    /\ \E outcome \in PipelineOutcomes :
          /\ calls' = calls \o pipelineCalls(outcome)
          /\ IF outcome # "ok" THEN Throw(pipelineError(outcome)) ELSE Goto("createFrameBuffers")
    /\ UNCHANGED <<envVars, winVars, selVars, indices, devVars, swapVars, objVars>>

CreateFrameBuffers ==
    /\ pc = "createFrameBuffers"
    /\ \E k \in 0..Len(swapChainImageViews) :
          /\ swapChainFramebuffers' = HandlesAfter(Len(swapChainImageViews), k)
          /\ framebufferInfos' = [i \in 1..IssuedCalls(Len(swapChainImageViews), k) |->
                                    [attachmentCount |-> 1,
                                     pAttachments |-> <<swapChainImageViews[i]>>,
                                     width |-> swapChainExtent.width,
                                     height |-> swapChainExtent.height]]
          /\ calls' = calls \o CreatedPrefix("framebuffer", k)
          /\ IF k < Len(swapChainImageViews)
             THEN Throw("failed to create framebuffer!")
             ELSE Goto("createCommandPool")
    /\ UNCHANGED <<envVars, winVars, selVars, indices, devVars, swapVars,
                   swapChainImageViews, imageViewInfos, renderPassInfo, poolInfo,
                   commandBuffer>>

PoolOnPresentFamily ==
    /\ pc = "createCommandPool"
    /\ LET queueFamilyIndices == findQueueFamilies(devices[physicalDevice])
       IN  /\ indices' = queueFamilyIndices
           /\ IF ~has_value(queueFamilyIndices.presentFamily)
              THEN Throw(bad_optional_access) /\ UNCHANGED <<calls, poolInfo>>
              ELSE /\ poolInfo' = {[flags |-> "RESET_COMMAND_BUFFER",
                                    queueFamilyIndex |-> value(queueFamilyIndices.presentFamily)]}
                   /\ \E ok \in BOOLEAN :
                         IF ~ok
                         THEN Throw("failed to create command pool!") /\ UNCHANGED calls
                         ELSE /\ Goto("createCommandBuffer")
                              /\ calls' = Append(calls, Create("commandPool", 0))
    /\ UNCHANGED <<envVars, winVars, selVars, devVars, swapVars,
                   swapChainImageViews, renderPassInfo, swapChainFramebuffers, commandBuffer,
                   infoVars>>

CreateCommandPool ==
    /\ pc = "createCommandPool"
    /\ LET queueFamilyIndices == findQueueFamilies(devices[physicalDevice])
       IN  /\ indices' = queueFamilyIndices
           /\ IF ~has_value(queueFamilyIndices.graphicsFamily)
              THEN Throw(bad_optional_access) /\ UNCHANGED <<calls, poolInfo>>
              ELSE /\ poolInfo' = {[flags |-> "RESET_COMMAND_BUFFER",
                                    queueFamilyIndex |-> value(queueFamilyIndices.graphicsFamily)]}
                   /\ \E ok \in BOOLEAN :
                         IF ~ok
                         THEN Throw("failed to create command pool!") /\ UNCHANGED calls
                         ELSE /\ Goto("createCommandBuffer")
                              /\ calls' = Append(calls, Create("commandPool", 0))
    /\ UNCHANGED <<envVars, winVars, selVars, devVars, swapVars,
                   swapChainImageViews, renderPassInfo, swapChainFramebuffers, commandBuffer,
                   infoVars>>

CreateCommandBuffer ==
    /\ pc = "createCommandBuffer"
    /\ \E ok \in BOOLEAN :
          IF ~ok
          THEN Throw("failed to allocate command buffers!") /\ UNCHANGED <<calls, commandBuffer>>
          ELSE /\ Goto("mainLoop")
               /\ calls' = Append(calls, Ev("allocate", "commandBuffer", 0))
               /\ commandBuffer' = {[commandPool |-> <<"commandPool", 0>>,
                                     level |-> "PRIMARY", commandBufferCount |-> 1]}
    /\ UNCHANGED <<envVars, winVars, selVars, indices, devVars, swapVars,
                   swapChainImageViews, renderPassInfo, swapChainFramebuffers, poolInfo,
                   infoVars>>

(***************************************************************************)
(* mainLoop: poll events until the window reports that it should close.    *)
(***************************************************************************)
PollsForever ==
    /\ pc = "mainLoop"
    /\ IF windowShouldClose
       THEN UNCHANGED <<ctlVars, windowShouldClose>>
       ELSE /\ windowShouldClose' \in BOOLEAN
            /\ UNCHANGED ctlVars
    /\ UNCHANGED <<calls, envVars, window, selVars, indices, devVars, swapVars, objVars>>

MainLoop ==
    /\ pc = "mainLoop"
    /\ IF windowShouldClose
       THEN Goto("cleanup") /\ UNCHANGED windowShouldClose
       ELSE /\ windowShouldClose' \in BOOLEAN      \* glfwPollEvents
            /\ UNCHANGED ctlVars
    /\ UNCHANGED <<calls, envVars, window, selVars, indices, devVars, swapVars, objVars>>

DestroyEach(obj, handles) == [i \in 1..Len(handles) |-> Destroy(obj, handles[i])]

SurfaceBeforeMessenger(validation, framebuffers, imageViews) ==
    <<Destroy("commandPool", 0)>>
    \o DestroyEach("framebuffer", framebuffers)
    \o <<Destroy("pipeline", 0), Destroy("pipelineLayout", 0), Destroy("renderPass", 0)>>
    \o DestroyEach("imageView", imageViews)
    \o <<Destroy("swapChain", 0), Destroy("device", 0)>>
    \o <<Destroy("surface", 0)>>
    \o (IF validation THEN <<Destroy("debugMessenger", 0)>> ELSE <<>>)
    \o <<Destroy("instance", 0)>>

MessengerUnconditionally(validation, framebuffers, imageViews) ==
    <<Destroy("commandPool", 0)>>
    \o DestroyEach("framebuffer", framebuffers)
    \o <<Destroy("pipeline", 0), Destroy("pipelineLayout", 0), Destroy("renderPass", 0)>>
    \o DestroyEach("imageView", imageViews)
    \o <<Destroy("swapChain", 0), Destroy("device", 0)>>
    \o <<Destroy("debugMessenger", 0)>>
    \o <<Destroy("surface", 0), Destroy("instance", 0)>>

SwapChainBeforeImageViews(validation, framebuffers, imageViews) ==
    <<Destroy("commandPool", 0)>>
    \o DestroyEach("framebuffer", framebuffers)
    \o <<Destroy("pipeline", 0), Destroy("pipelineLayout", 0), Destroy("renderPass", 0)>>
    \o <<Destroy("swapChain", 0)>>
    \o DestroyEach("imageView", imageViews)
    \o <<Destroy("device", 0)>>
    \o (IF validation THEN <<Destroy("debugMessenger", 0)>> ELSE <<>>)
    \o <<Destroy("surface", 0), Destroy("instance", 0)>>

\* the destroy calls of cleanup(), in order
cleanupCalls(validation, framebuffers, imageViews) ==
    <<Destroy("commandPool", 0)>>
    \o DestroyEach("framebuffer", framebuffers)
    \o <<Destroy("pipeline", 0), Destroy("pipelineLayout", 0), Destroy("renderPass", 0)>>
    \o DestroyEach("imageView", imageViews)
    \o <<Destroy("swapChain", 0), Destroy("device", 0)>>
    \o (IF validation THEN <<Destroy("debugMessenger", 0)>> ELSE <<>>)
    \o <<Destroy("surface", 0), Destroy("instance", 0)>>

Cleanup ==
    /\ pc = "cleanup"
    /\ calls' = calls \o cleanupCalls(enableValidationLayers, swapChainFramebuffers,
                                      swapChainImageViews)
    /\ window' = "destroyed"
    /\ Goto("return")
    /\ UNCHANGED <<envVars, windowShouldClose, selVars, indices, devVars, swapVars, objVars>>

(***************************************************************************)
(* main: run() returned, or the handler caught the exception.              *)
(***************************************************************************)
MainReturn ==
    /\ pc = "return"
    /\ pc' = "exited"
    /\ exitStatus' = "EXIT_SUCCESS"
    /\ UNCHANGED <<exception, calls, envVars, winVars, selVars, indices, devVars, swapVars, objVars>>

MainCatch ==
    /\ pc = "catch"
    /\ pc' = "exited"
    /\ exitStatus' = "EXIT_FAILURE"
    /\ UNCHANGED <<exception, calls, envVars, winVars, selVars, indices, devVars, swapVars, objVars>>

Next ==
    \/ InitWindow
    \/ CreateInstance
    \/ SetupDebugMessenger
    \/ CreateSurface
    \/ PickPhysicalDevice
    \/ CreateLogicalDevice
    \/ CreateSwapChain
    \/ CreateImageViews
    \/ CreateRenderPass
    \/ CreateGraphicsPipeline
    \/ CreateFrameBuffers
    \/ CreateCommandPool
    \/ CreateCommandBuffer
    \/ MainLoop
    \/ Cleanup
    \/ MainReturn
    \/ MainCatch

Spec == Init /\ [][Next]_vars

\* the one thread of the process is never suspended for ever: whenever main can
\* take a step that changes the state, it eventually takes one
SpecLive == Init /\ [][Next]_vars /\ WF_vars(Next)

(***************************************************************************)
(* Reading the call trace.                                                 *)
(***************************************************************************)
RECURSIVE Reverse(_)
Reverse(q) == IF q = <<>> THEN <<>> ELSE Append(Reverse(Tail(q)), Head(q))

RECURSIVE Collapse(_)
Collapse(q) ==
    IF Len(q) <= 1 THEN q
    ELSE IF q[1] = q[2] THEN Collapse(Tail(q)) ELSE <<q[1]>> \o Collapse(Tail(q))

IsCreate(e) == e.op = "create"
IsDestroy(e) == e.op = "destroy"

\* the handles of a sequence of events, as <<kind, number>>
Handles(q) == [k \in 1..Len(q) |-> <<q[k].obj, q[k].n>>]
Kinds(q) == [k \in 1..Len(q) |-> q[k].obj]

Created == Handles(SelectSeq(calls, IsCreate))
Destroyed == Handles(SelectSeq(calls, IsDestroy))

FailedExit == pc = "exited" /\ exitStatus = "EXIT_FAILURE"
CleanExit == pc = "exited" /\ exitStatus = "EXIT_SUCCESS"

(***************************************************************************)
(* C1.  When a creation call of a startup stage fails, every resource      *)
(* created earlier in the run is destroyed, in reverse creation order,     *)
(* before the process exits: at a failed exit the destroyed handles are    *)
(* the created handles, reversed.                                          *)
(***************************************************************************)
C1_FailedStartupReleasesAll == FailedExit => Destroyed = Reverse(Created)

(***************************************************************************)
(* C2.  Every shader module createGraphicsPipeline created is destroyed    *)
(* on every exit path of the function: outside the function, each created  *)
(* shader module has a later destroy call.                                 *)
(***************************************************************************)
C2_ShaderModulesReleasedOnEveryPath ==
    \A k \in 1..Len(calls) :
        (calls[k].op = "create" /\ calls[k].obj = "shaderModule")
            => \E j \in (k + 1)..Len(calls) : calls[j] = Destroy("shaderModule", calls[k].n)

(***************************************************************************)
(* C3.  On a run in which every stage succeeds, the destroy calls of       *)
(* cleanup, by kind of object, against the create calls of initVulkan.     *)
(***************************************************************************)
CleanupKinds ==
    {"instance", "debugMessenger", "surface", "device", "swapChain", "imageView",
     "renderPass", "pipelineLayout", "pipeline", "framebuffer", "commandPool"}

IsCleanupCreate(e) == e.op = "create" /\ e.obj \in CleanupKinds
IsCleanupDestroy(e) == e.op = "destroy" /\ e.obj \in CleanupKinds

CreatedKinds == Collapse(Kinds(SelectSeq(calls, IsCleanupCreate)))
DestroyedKinds == Collapse(Kinds(SelectSeq(calls, IsCleanupDestroy)))

\* q with the debug messenger and the surface exchanged
ExchangeMessengerAndSurface(q) ==
    [k \in 1..Len(q) |-> IF q[k] = "surface" /\ "debugMessenger" \in Range(q)
                         THEN "debugMessenger"
                         ELSE IF q[k] = "debugMessenger" /\ "surface" \in Range(q)
                         THEN "surface"
                         ELSE q[k]]

\* C3 as stated: the destroy sequence is exactly the reverse of the create sequence
C3_CleanupExactReverse == CleanExit => DestroyedKinds = Reverse(CreatedKinds)

\* C3 amended: the reverse of the create sequence, except that the debug messenger
\* (created before the surface) is also destroyed before the surface; without a
\* debug messenger it is the exact reverse
C3_CleanupReverseButMessenger ==
    CleanExit =>
        /\ DestroyedKinds = ExchangeMessengerAndSurface(Reverse(CreatedKinds))
        /\ ~enableValidationLayers => DestroyedKinds = Reverse(CreatedKinds)

C3_Witness ==
    /\ CleanExit
    /\ enableValidationLayers
    /\ Len(swapChainFramebuffers) >= 2
    /\ Len(DestroyedKinds) = Cardinality(CleanupKinds)

(***************************************************************************)
(* C7.  Device selection fails with two distinct fatal errors and no       *)
(* retry.  No device enumerated: "no compatible hardware", raised before   *)
(* any suitability check.  Devices but none suitable: "no suitable         *)
(* device", raised after all of them were checked.  Either way             *)
(* physicalDevice stays null and nothing after the surface is created.     *)
(***************************************************************************)
NoHardware == "failed to find GPUs with Vulkan support"
NoSuitableDevice == "failed to find a suitable GPU!"

PickRan == Create("surface", 0) \in Range(calls) /\ pc # "pickPhysicalDevice"

NothingAfterSurface ==
    \A k \in 1..Len(calls) : calls[k].obj \in {"instance", "debugMessenger", "surface"}

\* declaratively: the device has a family for each role, every required extension,
\* a surface format and a present mode
Suitable(d) ==
    /\ \E k \in 1..Len(d.queueFamilies) : d.queueFamilies[k].graphics
    /\ \E k \in 1..Len(d.queueFamilies) : d.queueFamilies[k].present
    /\ Range(deviceExtensions) \subseteq Range(d.extensions)
    /\ d.formats # <<>>
    /\ d.presentModes # <<>>

SelectionFailed ==
    /\ pc \in {"catch", "exited"}
    /\ exitStatus # "EXIT_SUCCESS"
    /\ physicalDevice = VK_NULL_HANDLE
    /\ NothingAfterSurface

C7_SelectionFailures ==
    PickRan =>
        /\ Len(devices) = 0 =>
              exception = NoHardware /\ verdicts = <<>> /\ SelectionFailed
        /\ (Len(devices) > 0 /\ \A k \in 1..Len(devices) : ~Suitable(devices[k])) =>
              /\ exception = NoSuitableDevice
              /\ verdicts = [k \in 1..Len(devices) |-> FALSE]
              /\ SelectionFailed
        /\ exception \in {NoHardware, NoSuitableDevice} => SelectionFailed

C7_Witness ==
    /\ FailedExit
    /\ exception = NoSuitableDevice
    /\ Len(verdicts) = MaxDevices

C7_WitnessNoHardware == FailedExit /\ exception = NoHardware

(***************************************************************************)
(* Specifications of single operations.  Each starts in a state run()      *)
(* passes through, with the driver's report drawn from a bounded set, and  *)
(* takes the one operation.                                                *)
(***************************************************************************)
MaxCandidates == 2    \* longest list of surface formats / present modes probed

\* the calls of a start-up that has reached pickPhysicalDevice
SurfaceReadyCalls(validation) ==
    <<Create("instance", 0)>>
    \o (IF validation THEN <<Create("debugMessenger", 0)>> ELSE <<>>)
    \o <<Create("surface", 0)>>

SurfaceReady ==
    /\ enableValidationLayers = TRUE
    /\ calls = SurfaceReadyCalls(TRUE)
    /\ window = "created"
    /\ Constructed

(***************************************************************************)
(* SpecQueue: findQueueFamilies on a device, as isDeviceSuitable calls it, *)
(* for every list of at most MaxFamilies queue families.                   *)
(***************************************************************************)
QueueProbeDevices ==
    {PhysicalDevice(f, deviceExtensions, <<BGRA>>, <<"FIFO">>, DefaultCaps) :
        f \in SeqsUpTo(QueueFamilyKinds, MaxFamilies)}

InitQueue ==
    /\ pc = "findQueueFamilies"
    /\ devices \in {<<d>> : d \in QueueProbeDevices}
    /\ framebufferSize = [width |-> WIDTH, height |-> HEIGHT]
    /\ SurfaceReady

FindQueueFamilies ==
    /\ pc = "findQueueFamilies"
    /\ indices' = findQueueFamilies(devices[1])
    /\ Goto("findQueueFamilies:return")
    /\ UNCHANGED <<calls, envVars, winVars, selVars, devVars, swapVars, objVars>>

NextQueue == FindQueueFamilies

SpecQueue == InitQueue /\ [][NextQueue]_vars

(***************************************************************************)
(* SpecSelect: pickPhysicalDevice on every list of at most MaxDevices      *)
(* devices that differ in queue coverage, extensions, formats and modes.   *)
(***************************************************************************)
SelectFamilyLists ==
    SeqsUpTo(QueueFamilyKinds, 1) \cup {<<QueueFamily(TRUE, FALSE), QueueFamily(FALSE, TRUE)>>}

SelectPool ==
    {PhysicalDevice(f, e, fm, m, DefaultCaps) :
        f \in SelectFamilyLists, e \in {<<>>, deviceExtensions},
        fm \in {<<>>, <<BGRA>>}, m \in {<<>>, <<"FIFO">>}}

InitSelect ==
    /\ pc = "pickPhysicalDevice"
    /\ devices \in SeqsUpTo(SelectPool, MaxDevices)
    /\ framebufferSize = [width |-> WIDTH, height |-> HEIGHT]
    /\ SurfaceReady

NextSelect == PickPhysicalDevice \/ MainCatch

SpecSelect == InitSelect /\ [][NextSelect]_vars

(***************************************************************************)
(* SpecSwap: createSwapChain on a selected, suitable device.  The probes   *)
(* vary one part of the driver's report at a time: the queue families, the *)
(* image counts, the extents and framebuffer size, the formats, the modes. *)
(***************************************************************************)
CountValues == {U32(0), U32(1), U32(2), U32(3), U32(2^16 - 1), UINT32_MAX}

ExtentBounds ==
    {<<Extent2D(U32(1), U32(1)), Extent2D(U32(1024), U32(1024))>>,
     <<Extent2D(U32(1), U32(1)), Extent2D(U32(4096), U32(4096))>>,
     <<Extent2D(U32(2000), U32(1200)), Extent2D(U32(4096), U32(4096))>>}

CurrentExtents ==
    {Extent2D(w, h) : w \in {U32(WIDTH), UINT32_MAX}, h \in {U32(HEIGHT), UINT32_MAX}}

FramebufferSizes ==
    {[width |-> 1920, height |-> 1080], [width |-> WIDTH, height |-> HEIGHT],
     [width |-> 0, height |-> 0]}

FormatValues == {BGRA, UNORM, SurfaceFormat("B8G8R8A8_SRGB", "DISPLAY_P3")}

ModeValues == {"IMMEDIATE", "MAILBOX", "FIFO"}

Probe(d, fb) == [device |-> d, fb |-> fb]

DefaultFb == [width |-> WIDTH, height |-> HEIGHT]

FamilyProbes ==
    {Probe(PhysicalDevice(f, deviceExtensions, <<BGRA>>, <<"FIFO">>, DefaultCaps), DefaultFb) :
        f \in {q \in SeqsUpTo(QueueFamilyKinds, MaxFamilies) :
                 /\ \E k \in 1..Len(q) : q[k].graphics
                 /\ \E k \in 1..Len(q) : q[k].present}}

CountProbes ==
    {Probe(PhysicalDevice(<<QueueFamily(TRUE, TRUE)>>, deviceExtensions, <<BGRA>>, <<"FIFO">>,
                          Capabilities(lo, hi, DefaultCaps.currentExtent,
                                       DefaultCaps.minImageExtent, DefaultCaps.maxImageExtent)),
           DefaultFb) : lo \in CountValues, hi \in CountValues}

ExtentProbes ==
    {Probe(PhysicalDevice(<<QueueFamily(TRUE, TRUE)>>, deviceExtensions, <<BGRA>>, <<"FIFO">>,
                          Capabilities(U32(2), U32(0), cur, b[1], b[2])), fb) :
        cur \in CurrentExtents, b \in ExtentBounds, fb \in FramebufferSizes}

FormatProbes ==
    {Probe(PhysicalDevice(<<QueueFamily(TRUE, TRUE)>>, deviceExtensions, fm, <<"FIFO">>,
                          DefaultCaps), DefaultFb) :
        fm \in SeqsUpTo(FormatValues, MaxCandidates) \ {<<>>}}

ModeProbes ==
    {Probe(PhysicalDevice(<<QueueFamily(TRUE, TRUE)>>, deviceExtensions, <<BGRA>>, m,
                          DefaultCaps), DefaultFb) :
        m \in SeqsUpTo(ModeValues, MaxCandidates) \ {<<>>}}

SwapProbes == FamilyProbes \cup CountProbes \cup ExtentProbes \cup FormatProbes \cup ModeProbes

\* the state in which run() enters createSwapChain with device d selected
InitSwap ==
    \E probe \in SwapProbes :
        LET ind == findQueueFamilies(probe.device)
            uniqueQueueFamilies == {value(ind.graphicsFamily), value(ind.presentFamily)}
        IN  /\ pc = "createSwapChain"
            /\ exception = "none"
            /\ exitStatus = "none"
            /\ enableValidationLayers = TRUE
            /\ calls = Append(SurfaceReadyCalls(TRUE), Create("device", 0))
            /\ window = "created"
            /\ windowShouldClose = FALSE
            /\ devices = <<probe.device>>
            /\ framebufferSize = probe.fb
            /\ physicalDevice = 1
            /\ verdicts = <<TRUE>>
            /\ extensionsSupported = <<TRUE>>
            /\ queries = <<Query(<<probe.device>>, 1)>>
            /\ indices = ind
            /\ queueCreateInfos = [k \in 1..Cardinality(uniqueQueueFamilies) |->
                                     [queueFamilyIndex |-> SortedSeq(uniqueQueueFamilies)[k],
                                      queueCount |-> 1]]
            /\ graphicsQueue = ind.graphicsFamily
            /\ presentQueue = ind.presentFamily
            /\ surfaceFormat = {}
            /\ swapChainCreateInfo = {}
            /\ reportedImageCount = 0
            /\ swapChainImages = <<>>
            /\ swapChainImageFormat = "UNDEFINED"
            /\ swapChainExtent = NoExtent
            /\ swapChainImageViews = <<>>
            /\ imageViewInfos = <<>>
            /\ renderPassInfo = {}
            /\ swapChainFramebuffers = <<>>
            /\ framebufferInfos = <<>>
            /\ poolInfo = {}
            /\ commandBuffer = {}

NextSwap == CreateSwapChain

SpecSwap == InitSwap /\ [][NextSwap]_vars

(***************************************************************************)
(* C4.  findQueueFamilies and the index each role receives (SpecQueue).    *)
(***************************************************************************)
SetMin(S) == CHOOSE x \in S : \A y \in S : x <= y
SetMax(S) == CHOOSE x \in S : \A y \in S : y <= x

Families == devices[1].queueFamilies
FamilyIndexes == 0..(Len(Families) - 1)
GraphicsIndexes == {i \in FamilyIndexes : Families[i + 1].graphics}
PresentIndexes == {i \in FamilyIndexes : Families[i + 1].present}

QueueReturned == pc = "findQueueFamilies:return"

\* the indexes the scan reaches: no earlier index completes both roles
Scanned ==
    {i \in FamilyIndexes :
        \A j \in 0..(i - 1) :
            \/ \A a \in 0..j : a \notin GraphicsIndexes
            \/ \A b \in 0..j : b \notin PresentIndexes}

LastOf(S) == IF S = {} THEN {} ELSE {SetMax(S)}

\* C4 as stated: a returned graphicsFamily is the lowest index with the graphics
\* bit, a returned presentFamily the lowest index with presentation support
C4_LowestIndexPerRole ==
    QueueReturned =>
        /\ has_value(indices.graphicsFamily) =>
              value(indices.graphicsFamily) = SetMin(GraphicsIndexes)
        /\ has_value(indices.presentFamily) =>
              value(indices.presentFamily) = SetMin(PresentIndexes)

\* C4 amended: each role receives the highest index satisfying its predicate among
\* the families scanned; the scan ends at the first index at which both roles are
\* assigned
C4_LastScannedIndexPerRole ==
    QueueReturned =>
        /\ indices.graphicsFamily = LastOf(GraphicsIndexes \cap Scanned)
        /\ indices.presentFamily = LastOf(PresentIndexes \cap Scanned)

C4_Witness ==
    /\ QueueReturned
    /\ Families = <<QueueFamily(TRUE, FALSE), QueueFamily(TRUE, TRUE)>>
    /\ indices.graphicsFamily = {1}
    /\ indices.presentFamily = {1}

(***************************************************************************)
(* C5.  pickPhysicalDevice selects the first suitable device in            *)
(* enumeration order: the selected device is suitable, every earlier one   *)
(* is not, and no device after it is examined; it returns normally         *)
(* whenever some device is suitable (SpecSelect).                          *)
(***************************************************************************)
DeviceSelected == pc = "createLogicalDevice"

C5_FirstSuitableDevice ==
    /\ DeviceSelected =>
          /\ physicalDevice \in 1..Len(devices)
          /\ Suitable(devices[physicalDevice])
          /\ \A j \in 1..(physicalDevice - 1) : ~Suitable(devices[j])
          /\ Len(verdicts) = physicalDevice
    /\ (pc # "pickPhysicalDevice" /\ \E k \in 1..Len(devices) : Suitable(devices[k]))
          => DeviceSelected

C5_Witness ==
    /\ DeviceSelected
    /\ physicalDevice = 1
    /\ Len(devices) = MaxDevices
    /\ Suitable(devices[MaxDevices])

(***************************************************************************)
(* C6.  The acceptance predicate of the selector, for each device it       *)
(* examined (SpecSelect).                                                  *)
(***************************************************************************)
QueueCoverage(d) ==
    /\ \E k \in 1..Len(d.queueFamilies) : d.queueFamilies[k].graphics
    /\ \E k \in 1..Len(d.queueFamilies) : d.queueFamilies[k].present

\* C6 as stated: accepted iff at least one surface format, at least one present
\* mode and complete queue coverage
C6_AcceptedIffFormatsModesQueues ==
    \A k \in 1..Len(verdicts) :
        verdicts[k] <=> (/\ devices[k].formats # <<>>
                         /\ devices[k].presentModes # <<>>
                         /\ QueueCoverage(devices[k]))

\* C6 amended: accepted iff at least one surface format, at least one present mode,
\* complete queue coverage and every required device extension available
C6_AcceptedIffFormatsModesQueuesExtensions ==
    \A k \in 1..Len(verdicts) :
        verdicts[k] <=> (/\ devices[k].formats # <<>>
                         /\ devices[k].presentModes # <<>>
                         /\ QueueCoverage(devices[k])
                         /\ Range(deviceExtensions) \subseteq Range(devices[k].extensions))

C6_Witness ==
    /\ Len(verdicts) = 2
    /\ ~verdicts[1]
    /\ devices[1].formats # <<>> /\ devices[1].presentModes # <<>>
    /\ QueueCoverage(devices[1])
    /\ verdicts[2]

(***************************************************************************)
(* C8.  Sharing mode requested by createSwapChain: the same family for     *)
(* both roles gives exclusive sharing with no index listed; different      *)
(* families give concurrent sharing with exactly the two indexes listed;   *)
(* exclusive sharing is never requested across different families          *)
(* (SpecSwap).                                                             *)
(***************************************************************************)
SwapInfo == CHOOSE ci \in swapChainCreateInfo : TRUE

C8_SharingMode ==
    swapChainCreateInfo # {} =>
        /\ isComplete(indices)
        /\ indices.graphicsFamily = indices.presentFamily =>
              /\ SwapInfo.imageSharingMode = "EXCLUSIVE"
              /\ SwapInfo.queueFamilyIndexCount = 0
              /\ SwapInfo.pQueueFamilyIndices = <<>>
        /\ indices.graphicsFamily # indices.presentFamily =>
              /\ SwapInfo.imageSharingMode = "CONCURRENT"
              /\ SwapInfo.queueFamilyIndexCount = 2
              /\ Len(SwapInfo.pQueueFamilyIndices) = 2
              /\ Range(SwapInfo.pQueueFamilyIndices)
                     = indices.graphicsFamily \cup indices.presentFamily
        /\ SwapInfo.imageSharingMode = "EXCLUSIVE" =>
              indices.graphicsFamily = indices.presentFamily

C8_Witness ==
    /\ pc = "createImageViews"
    /\ swapChainCreateInfo # {}
    /\ SwapInfo.imageSharingMode = "CONCURRENT"
    /\ indices.graphicsFamily # indices.presentFamily

(***************************************************************************)
(* C9.  The image count requested by createSwapChain is                    *)
(* min(minImageCount + 1, maxImageCount) when maxImageCount > 0 and        *)
(* minImageCount + 1 when maxImageCount = 0, the sum being the uint32_t    *)
(* sum; (2, 0) gives 3 and (3, 3) gives 3 (SpecSwap).                      *)
(***************************************************************************)
U32Min(a, b) == IF U32Lt(b, a) THEN b ELSE a

SelectedCaps == devices[physicalDevice].capabilities

C9_ImageCount ==
    swapChainCreateInfo # {} =>
        /\ SwapInfo.minImageCount =
              IF SelectedCaps.maxImageCount # U32(0)
              THEN U32Min(U32Inc(SelectedCaps.minImageCount), SelectedCaps.maxImageCount)
              ELSE U32Inc(SelectedCaps.minImageCount)
        /\ (SelectedCaps.minImageCount = U32(2) /\ SelectedCaps.maxImageCount = U32(0))
              => SwapInfo.minImageCount = U32(3)
        /\ (SelectedCaps.minImageCount = U32(3) /\ SelectedCaps.maxImageCount = U32(3))
              => SwapInfo.minImageCount = U32(3)

C9_Witness ==
    /\ swapChainCreateInfo # {}
    /\ SelectedCaps.minImageCount = U32(3)
    /\ SelectedCaps.maxImageCount = U32(3)
    /\ SwapInfo.minImageCount = U32(3)

(***************************************************************************)
(* C10.  The extent chooseSwapExtent returns to createSwapChain            *)
(* (SpecSwap).                                                             *)
(***************************************************************************)
\* r is v clamped into [lo, hi]
ClampedInto(r, v, lo, hi) ==
    /\ U32Lt(v, lo) => r = lo
    /\ U32Lt(hi, v) => r = hi
    /\ (U32Le(lo, v) /\ U32Le(v, hi)) => r = v

WindowExtentClamped ==
    /\ ClampedInto(SwapInfo.imageExtent.width, U32(framebufferSize.width),
                   SelectedCaps.minImageExtent.width, SelectedCaps.maxImageExtent.width)
    /\ ClampedInto(SwapInfo.imageExtent.height, U32(framebufferSize.height),
                   SelectedCaps.minImageExtent.height, SelectedCaps.maxImageExtent.height)

MatchWindow == Extent2D(UINT32_MAX, UINT32_MAX)

\* C10 as stated: currentExtent verbatim whenever it is not the marker
\* (UINT32_MAX, UINT32_MAX), otherwise the clamped framebuffer size
C10_VerbatimUnlessMarker ==
    swapChainCreateInfo # {} =>
        IF SelectedCaps.currentExtent # MatchWindow
        THEN SwapInfo.imageExtent = SelectedCaps.currentExtent
        ELSE WindowExtentClamped

\* C10 amended: currentExtent verbatim whenever its width is not UINT32_MAX (the
\* height is not looked at), otherwise the clamped framebuffer size
C10_VerbatimUnlessWidthMarker ==
    swapChainCreateInfo # {} =>
        /\ IF SelectedCaps.currentExtent.width # UINT32_MAX
           THEN SwapInfo.imageExtent = SelectedCaps.currentExtent
           ELSE WindowExtentClamped
        /\ (/\ SelectedCaps.currentExtent = MatchWindow
            /\ framebufferSize = [width |-> 1920, height |-> 1080]
            /\ SelectedCaps.minImageExtent = Extent2D(U32(1), U32(1))
            /\ SelectedCaps.maxImageExtent = Extent2D(U32(1024), U32(1024)))
              => SwapInfo.imageExtent = Extent2D(U32(1024), U32(1024))

C10_Witness ==
    /\ swapChainCreateInfo # {}
    /\ SelectedCaps.currentExtent = Extent2D(UINT32_MAX, U32(HEIGHT))
    /\ framebufferSize = [width |-> 1920, height |-> 1080]
    /\ SelectedCaps.maxImageExtent = Extent2D(U32(1024), U32(1024))
    /\ SwapInfo.imageExtent = Extent2D(U32(1024), U32(1024))

(***************************************************************************)
(* C11.  The extent stored as swapChainExtent by createSwapChain lies      *)
(* within [minImageExtent, maxImageExtent] componentwise, whether          *)
(* currentExtent was used verbatim or the extent was derived from the      *)
(* framebuffer size (SpecSwap).                                            *)
(***************************************************************************)
ExtentLe(a, b) == U32Le(a.width, b.width) /\ U32Le(a.height, b.height)

SwapChainCreated == pc = "createImageViews"

ExtentWithinBounds ==
    /\ ExtentLe(SelectedCaps.minImageExtent, swapChainExtent)
    /\ ExtentLe(swapChainExtent, SelectedCaps.maxImageExtent)

\* what the driver guarantees of its report: the bounds are ordered and a
\* currentExtent that is handed out (width not UINT32_MAX) lies within them
ConsistentExtents(capabilities) ==
    /\ ExtentLe(capabilities.minImageExtent, capabilities.maxImageExtent)
    /\ capabilities.currentExtent.width # UINT32_MAX =>
          /\ ExtentLe(capabilities.minImageExtent, capabilities.currentExtent)
          /\ ExtentLe(capabilities.currentExtent, capabilities.maxImageExtent)

\* C11 as stated: for every capability set
C11_ExtentWithinBounds == SwapChainCreated => ExtentWithinBounds

\* C11 amended: for every capability set whose bounds are ordered and whose
\* currentExtent, when its width is not UINT32_MAX, lies within the bounds
C11_ExtentWithinBoundsWhenConsistent ==
    (SwapChainCreated /\ ConsistentExtents(SelectedCaps)) =>
        /\ ExtentWithinBounds
        /\ swapChainExtent = SwapInfo.imageExtent

C11_Witness ==
    /\ SwapChainCreated
    /\ SelectedCaps.currentExtent = MatchWindow
    /\ SelectedCaps.minImageExtent = Extent2D(U32(2000), U32(1200))
    /\ framebufferSize = [width |-> 0, height |-> 0]
    /\ swapChainExtent = Extent2D(U32(2000), U32(1200))

C11_WitnessVerbatim ==
    /\ SwapChainCreated
    /\ SelectedCaps.currentExtent = Extent2D(U32(WIDTH), U32(HEIGHT))
    /\ ConsistentExtents(SelectedCaps)
    /\ swapChainExtent = Extent2D(U32(WIDTH), U32(HEIGHT))

(***************************************************************************)
(* C12.  For every capability set with maxImageCount = 0 or                *)
(* maxImageCount >= minImageCount, the image count createSwapChain         *)
(* requests is at least minImageCount, and at most maxImageCount when      *)
(* maxImageCount > 0, for every uint32_t value of minImageCount, the       *)
(* largest included (SpecSwap).                                            *)
(***************************************************************************)
C12_ImageCountWithinBounds ==
    (/\ swapChainCreateInfo # {}
     /\ \/ SelectedCaps.maxImageCount = U32(0)
        \/ U32Le(SelectedCaps.minImageCount, SelectedCaps.maxImageCount)) =>
        /\ U32Le(SelectedCaps.minImageCount, SwapInfo.minImageCount)
        /\ U32Gt(SelectedCaps.maxImageCount, U32(0)) =>
              U32Le(SwapInfo.minImageCount, SelectedCaps.maxImageCount)

(***************************************************************************)
(* C13.  chooseSwapSurfaceFormat on a non-empty candidate list: the pair   *)
(* (B8G8R8A8 sRGB, sRGB nonlinear) when the list holds it at any position, *)
(* otherwise the first entry of the list (SpecSwap).                       *)
(***************************************************************************)
SwapChainEntered == swapChainCreateInfo # {}

CandidateFormats == devices[physicalDevice].formats

ChosenFormat == CHOOSE f \in surfaceFormat : TRUE

C13_PreferredFormatElseFirst ==
    (SwapChainEntered /\ CandidateFormats # <<>>) =>
        /\ surfaceFormat # {}
        /\ BGRA \in Range(CandidateFormats) => ChosenFormat = BGRA
        /\ BGRA \notin Range(CandidateFormats) => ChosenFormat = CandidateFormats[1]
        /\ SwapInfo.imageFormat = ChosenFormat.format

C13_Witness ==
    /\ SwapChainEntered
    /\ Len(CandidateFormats) >= 2
    /\ CandidateFormats[1] = SurfaceFormat("B8G8R8A8_SRGB", "DISPLAY_P3")
    /\ CandidateFormats[Len(CandidateFormats)] = BGRA
    /\ ChosenFormat = BGRA

C13_WitnessFallback ==
    /\ SwapChainEntered
    /\ CandidateFormats = <<UNORM, SurfaceFormat("B8G8R8A8_SRGB", "DISPLAY_P3")>>
    /\ ChosenFormat = UNORM

(***************************************************************************)
(* C14.  chooseSwapPresentMode: mailbox whenever mailbox is among the      *)
(* available modes, at any position; FIFO whenever it is not; FIFO for     *)
(* the list holding FIFO alone (SpecSwap).                                 *)
(***************************************************************************)
CandidateModes == devices[physicalDevice].presentModes

C14_MailboxElseFifo ==
    SwapChainEntered =>
        /\ "MAILBOX" \in Range(CandidateModes) => SwapInfo.presentMode = "MAILBOX"
        /\ "MAILBOX" \notin Range(CandidateModes) => SwapInfo.presentMode = "FIFO"
        /\ CandidateModes = <<"FIFO">> => SwapInfo.presentMode = "FIFO"

C14_Witness ==
    /\ SwapChainEntered
    /\ Len(CandidateModes) >= 2
    /\ CandidateModes[1] = "FIFO"
    /\ CandidateModes[Len(CandidateModes)] = "MAILBOX"
    /\ SwapInfo.presentMode = "MAILBOX"

C14_WitnessFallback ==
    /\ SwapChainEntered
    /\ CandidateModes = <<"IMMEDIATE">>
    /\ SwapInfo.presentMode = "FIFO"

(***************************************************************************)
(* C15.  Every failure of a startup stage is terminal: the failing call is *)
(* not retried, no later stage runs, the main loop is not entered, and the *)
(* process exits with a non-zero status after the teardown of the          *)
(* resources already constructed (every created handle has been destroyed  *)
(* at exit).                                                               *)
(***************************************************************************)
Failed == exception # "none"

C15_FailureIsTerminal ==
    Failed =>
        /\ pc \in {"catch", "exited"}
        /\ exitStatus # "EXIT_SUCCESS"
        /\ windowShouldClose = FALSE
        /\ Cardinality(Range(Created)) = Len(Created)
        /\ pc = "exited" =>
              /\ exitStatus = "EXIT_FAILURE"
              /\ Range(Created) \subseteq Range(Destroyed)

(***************************************************************************)
(* C16.  Startup is a strictly linear forward state machine: the stages    *)
(* run in the order of initVulkan, a stage starts only after every earlier *)
(* stage has succeeded, each stage is entered at most once, and once the   *)
(* main loop is reached no creation stage is entered again: the only       *)
(* further transition is to termination.                                   *)
(***************************************************************************)
Stages ==
    <<"createInstance", "setupDebugMessenger", "createSurface", "pickPhysicalDevice",
      "createLogicalDevice", "createSwapChain", "createImageViews", "createRenderPass",
      "createGraphicsPipeline", "createFrameBuffers", "createCommandPool",
      "createCommandBuffer">>

IsStage(p) == p \in Range(Stages)

StageIndex(p) == CHOOSE k \in 1..Len(Stages) : Stages[k] = p

\* the kinds of object a successful stage leaves behind
StageKinds(k) ==
    CASE k = 1 -> <<"instance">>
      [] k = 2 -> IF enableValidationLayers THEN <<"debugMessenger">> ELSE <<>>
      [] k = 3 -> <<"surface">>
      [] k = 4 -> <<>>
      [] k = 5 -> <<"device">>
      [] k = 6 -> <<"swapChain">>
      [] k = 7 -> <<"imageView">>
      [] k = 8 -> <<"renderPass">>
      [] k = 9 -> <<"pipelineLayout", "pipeline">>
      [] k = 10 -> <<"framebuffer">>
      [] k = 11 -> <<"commandPool">>
      [] k = 12 -> <<"commandBuffer">>

RECURSIVE KindsBefore(_)
KindsBefore(k) == IF k <= 1 THEN <<>> ELSE KindsBefore(k - 1) \o StageKinds(k - 1)

IsStageResult(e) == e.op \in {"create", "allocate"} /\ e.obj # "shaderModule"

StageResults == Collapse(Kinds(SelectSeq(calls, IsStageResult)))

Running == pc = "mainLoop"

Terminated == pc \in {"cleanup", "return", "catch", "exited"}

EarlierStagesSucceeded ==
    /\ IsStage(pc) => (exception = "none" /\ StageResults = KindsBefore(StageIndex(pc)))
    /\ Running => (exception = "none" /\ StageResults = KindsBefore(Len(Stages) + 1))

ForwardStep ==
    /\ IsStage(pc) =>
          \/ pc' = pc /\ UNCHANGED vars
          \/ pc' = "catch" /\ exception' # "none"
          \/ /\ StageIndex(pc) < Len(Stages)
             /\ pc' = Stages[StageIndex(pc) + 1]
          \/ StageIndex(pc) = Len(Stages) /\ pc' = "mainLoop"
    /\ Running => pc' \in {"mainLoop", "cleanup"}
    /\ Terminated => (Terminated' /\ calls' \in {calls, calls \o (
                          cleanupCalls(enableValidationLayers, swapChainFramebuffers,
                                       swapChainImageViews))})
    /\ (Running \/ Terminated) =>
          SelectSeq(calls', IsStageResult) = SelectSeq(calls, IsStageResult)

C16_LinearStartup == []EarlierStagesSucceeded /\ [][ForwardStep]_vars

C16_Witness ==
    /\ Running
    /\ windowShouldClose
    /\ enableValidationLayers
    /\ StageResults = KindsBefore(Len(Stages) + 1)

(***************************************************************************)
(* SpecProbe: querySwapChainSupport called repeatedly, on any of the       *)
(* enumerated devices, while nothing else runs.                            *)
(***************************************************************************)
MaxQueries == 2       \* most querySwapChainSupport calls made in a row

\* reports no surface format and no present mode (both counts are 0)
DevEmptyLists ==
    PhysicalDevice(<<QueueFamily(TRUE, TRUE)>>, deviceExtensions, <<>>, <<>>, DefaultCaps)

ProbePool == LifecyclePool \cup {DevEmptyLists}

InitProbe ==
    /\ pc = "querySwapChainSupport"
    /\ devices \in SeqsUpTo(ProbePool, MaxDevices) \ {<<>>}
    /\ framebufferSize = [width |-> WIDTH, height |-> HEIGHT]
    /\ SurfaceReady

QueryStoresFormat ==
    /\ pc = "querySwapChainSupport"
    /\ Len(queries) < MaxQueries
    /\ \E device \in 1..Len(devices) :
          /\ queries' = Append(queries, Query(devices, device))
          /\ swapChainImageFormat' =
                IF Query(devices, device).details.formats # <<>>
                THEN Query(devices, device).details.formats[1].format
                ELSE swapChainImageFormat
    /\ UNCHANGED <<ctlVars, calls, envVars, winVars, physicalDevice, verdicts,
                   extensionsSupported, indices,
                   devVars, surfaceFormat, swapChainCreateInfo, reportedImageCount,
                   swapChainImages, swapChainExtent, objVars>>

\* one call: the result goes to the caller, no member is written
QuerySwapChainSupport ==
    /\ pc = "querySwapChainSupport"
    /\ Len(queries) < MaxQueries
    /\ \E device \in 1..Len(devices) :
          queries' = Append(queries, Query(devices, device))
    /\ UNCHANGED <<ctlVars, calls, envVars, winVars, physicalDevice, verdicts,
                   extensionsSupported, indices,
                   devVars, swapVars, objVars>>

NextProbe == QuerySwapChainSupport

SpecProbe == InitProbe /\ [][NextProbe]_vars

(***************************************************************************)
(* C17.  querySwapChainSupport is a pure, idempotent probe: calls on the   *)
(* same device with nothing changed in between return the same             *)
(* capabilities, formats and present modes, and a call changes no          *)
(* application state: no handle, selected device or stored format or       *)
(* extent (SpecProbe).                                                     *)
(***************************************************************************)
SameAnswers ==
    \A a, b \in 1..Len(queries) :
        queries[a].device = queries[b].device => queries[a].details = queries[b].details

\* what the driver reported is what came back
AnswersAsReported ==
    \A a \in 1..Len(queries) :
        LET d == devices[queries[a].device]
        IN  /\ queries[a].details.capabilities = d.capabilities
            /\ queries[a].details.formats = d.formats
            /\ queries[a].details.presentModes = d.presentModes

ApplicationState ==
    <<calls, window, physicalDevice, indices, devVars, swapVars, objVars>>

QueryReadsOnly == (Len(queries') > Len(queries)) => UNCHANGED ApplicationState

NextChain ==
    \/ CreateSwapChain
    \/ CreateImageViews
    \/ CreateRenderPass
    \/ CreateGraphicsPipeline
    \/ CreateFrameBuffers

SpecChain == InitSwap /\ [][NextChain]_vars

(***************************************************************************)
(* C18.  After createRenderPass the render-target description has exactly  *)
(* one colour attachment, whose format is the format surface negotiation   *)
(* chose in createSwapChain; every image view uses that format too.  This  *)
(* holds for every candidate format list, the fallback to the first entry  *)
(* included (SpecChain).                                                   *)
(***************************************************************************)
RenderPass == CHOOSE r \in renderPassInfo : TRUE

\* the format negotiation is to choose, stated on the candidate list
NegotiatedFormat ==
    IF BGRA \in Range(CandidateFormats) THEN BGRA.format ELSE CandidateFormats[1].format

C18_AttachmentFormat ==
    renderPassInfo # {} =>
        /\ RenderPass.attachmentCount = 1
        /\ RenderPass.format = NegotiatedFormat
        /\ RenderPass.format = ChosenFormat.format
        /\ RenderPass.format = SwapInfo.imageFormat
        /\ Len(imageViewInfos) = Len(swapChainImages)
        /\ \A i \in 1..Len(imageViewInfos) : imageViewInfos[i].format = RenderPass.format

C18_Witness ==
    /\ renderPassInfo # {}
    /\ CandidateFormats = <<UNORM, SurfaceFormat("B8G8R8A8_SRGB", "DISPLAY_P3")>>
    /\ RenderPass.format = "B8G8R8A8_UNORM"
    /\ Len(imageViewInfos) >= 2

(***************************************************************************)
(* C19.  The application holds as many swap-chain images as the created    *)
(* chain reports, not as many as it requested; for every count the chain   *)
(* reports there is exactly one image view per image and, once the         *)
(* framebuffers are created, exactly one framebuffer per image view        *)
(* (SpecChain).                                                            *)
(***************************************************************************)
StagePassed(k) == (IsStage(pc) /\ StageIndex(pc) > k) \/ pc \in {"mainLoop", "cleanup"}

ImageViewsCreated == StagePassed(7)

FramebuffersCreated == StagePassed(10)

OnePerEntry(handles, n) ==
    /\ Len(handles) = n
    /\ \A i \in 1..n : handles[i] # VK_NULL_HANDLE
    /\ \A i, j \in 1..n : handles[i] = handles[j] => i = j

C19_OnePerReportedImage ==
    /\ reportedImageCount > 0 =>
          /\ OnePerEntry(swapChainImages, reportedImageCount)
          /\ U32Le(SwapInfo.minImageCount, U32(reportedImageCount))
    /\ ImageViewsCreated =>
          /\ OnePerEntry(swapChainImageViews, reportedImageCount)
          /\ Len(imageViewInfos) = reportedImageCount
          /\ \A i \in 1..reportedImageCount : imageViewInfos[i].image = swapChainImages[i]
    /\ FramebuffersCreated =>
          /\ OnePerEntry(swapChainFramebuffers, reportedImageCount)
          /\ Len(framebufferInfos) = reportedImageCount
          /\ \A i \in 1..reportedImageCount :
                framebufferInfos[i].pAttachments = <<swapChainImageViews[i]>>

C19_Witness ==
    /\ FramebuffersCreated
    /\ SwapInfo.minImageCount = U32(2)
    /\ reportedImageCount = 3
    /\ Len(swapChainFramebuffers) = 3

(***************************************************************************)
(* SpecDevice: from createLogicalDevice to createCommandBuffer on a        *)
(* selected device, for every list of at most MaxFamilies queue families   *)
(* that covers both roles.                                                 *)
(***************************************************************************)
InitDevice ==
    \E probe \in FamilyProbes :
        /\ pc = "createLogicalDevice"
        /\ exception = "none"
        /\ exitStatus = "none"
        /\ enableValidationLayers = TRUE
        /\ calls = SurfaceReadyCalls(TRUE)
        /\ window = "created"
        /\ windowShouldClose = FALSE
        /\ devices = <<probe.device>>
        /\ framebufferSize = probe.fb
        /\ physicalDevice = 1
        /\ verdicts = <<TRUE>>
        /\ extensionsSupported = <<TRUE>>
        /\ queries = <<Query(<<probe.device>>, 1)>>
        /\ indices = findQueueFamilies(probe.device)
        /\ queueCreateInfos = <<>>
        /\ graphicsQueue = {}
        /\ presentQueue = {}
        /\ surfaceFormat = {}
        /\ swapChainCreateInfo = {}
        /\ reportedImageCount = 0
        /\ swapChainImages = <<>>
        /\ swapChainImageFormat = "UNDEFINED"
        /\ swapChainExtent = NoExtent
        /\ swapChainImageViews = <<>>
        /\ imageViewInfos = <<>>
        /\ renderPassInfo = {}
        /\ swapChainFramebuffers = <<>>
        /\ framebufferInfos = <<>>
        /\ poolInfo = {}
        /\ commandBuffer = {}

NextDevice ==
    \/ CreateLogicalDevice
    \/ CreateSwapChain
    \/ CreateImageViews
    \/ CreateRenderPass
    \/ CreateGraphicsPipeline
    \/ CreateFrameBuffers
    \/ CreateCommandPool
    \/ CreateCommandBuffer

SpecDevice == InitDevice /\ [][NextDevice]_vars

(***************************************************************************)
(* C20.  The command pool is created for the graphicsFamily index of the   *)
(* selected device, the index the graphics queue of the logical device was *)
(* obtained from, with per-buffer reset enabled; exactly one command       *)
(* buffer, of primary level, is allocated from that pool, and only after   *)
(* the pool was created (SpecDevice).                                      *)
(***************************************************************************)
Pool == CHOOSE i \in poolInfo : TRUE

Buffer == CHOOSE b \in commandBuffer : TRUE

IsAllocate(e) == e.op = "allocate"

Position(q, e) == CHOOSE k \in 1..Len(q) : q[k] = e

C20_PoolOnGraphicsFamily ==
    /\ poolInfo # {} =>
          /\ {Pool.queueFamilyIndex} = graphicsQueue
          /\ {Pool.queueFamilyIndex} = LastOf(GraphicsIndexes \cap Scanned)
          /\ Families[Pool.queueFamilyIndex + 1].graphics
          /\ Pool.flags = "RESET_COMMAND_BUFFER"
    /\ commandBuffer # {} =>
          /\ Buffer.level = "PRIMARY"
          /\ Buffer.commandBufferCount = 1
          /\ Buffer.commandPool = <<"commandPool", 0>>
    /\ Len(SelectSeq(calls, IsAllocate)) = (IF commandBuffer # {} THEN 1 ELSE 0)
    /\ \A k \in 1..Len(calls) :
          IsAllocate(calls[k]) =>
              /\ calls[k].obj = "commandBuffer"
              /\ Create("commandPool", 0) \in Range(calls)
              /\ Position(calls, Create("commandPool", 0)) < k
    /\ exception = "failed to create command pool!" => commandBuffer = {}

C20_Witness ==
    /\ commandBuffer # {}
    /\ Len(Families) = MaxFamilies
    /\ indices.presentFamily # indices.graphicsFamily
    /\ Pool.queueFamilyIndex = MaxFamilies - 1
    /\ graphicsQueue = {MaxFamilies - 1}

(***************************************************************************)
(* C21.  findQueueFamilies stops at the first family index at which both   *)
(* roles are assigned and inspects no later family.  For the families      *)
(* [graphics only, present only, graphics and present] it returns the two  *)
(* distinct indexes 0 and 1.  Whenever the scan reaches a family that      *)
(* supports both roles, the result gives that one index to both roles      *)
(* (SpecQueue).                                                            *)
(***************************************************************************)
\* the indexes at which both roles have been seen
CompleteAt ==
    {i \in FamilyIndexes :
        /\ \E a \in 0..i : a \in GraphicsIndexes
        /\ \E b \in 0..i : b \in PresentIndexes}

SplitThenCombined ==
    <<QueueFamily(TRUE, FALSE), QueueFamily(FALSE, TRUE), QueueFamily(TRUE, TRUE)>>

C21_StopsWhenComplete ==
    QueueReturned =>
        /\ indices.inspected =
              IF CompleteAt # {} THEN SetMin(CompleteAt) + 1 ELSE Len(Families)
        /\ isComplete(indices) <=> CompleteAt # {}
        /\ Families = SplitThenCombined =>
              /\ indices.graphicsFamily = {0}
              /\ indices.presentFamily = {1}
              /\ indices.inspected = 2
        /\ \A i \in 0..(indices.inspected - 1) :
              (Families[i + 1].graphics /\ Families[i + 1].present) =>
                  indices.graphicsFamily = {i} /\ indices.presentFamily = {i}

C21_Witness ==
    /\ QueueReturned
    /\ Families = SplitThenCombined
    /\ indices.graphicsFamily = {0}
    /\ indices.presentFamily = {1}
    /\ indices.inspected = 2

C21_WitnessCombined ==
    /\ QueueReturned
    /\ Families = <<QueueFamily(TRUE, FALSE), QueueFamily(TRUE, TRUE)>>
    /\ indices.graphicsFamily = {1}
    /\ indices.presentFamily = {1}
    /\ indices.inspected = 2

(***************************************************************************)
(* SpecSuitable: isDeviceSuitable on one device, for every list of at most *)
(* MaxFamilies queue families and every list of at most MaxExtensions      *)
(* extension names (the empty list and lists with duplicates included),    *)
(* with and without surface formats and present modes.                     *)
(***************************************************************************)
MaxExtensions == 2    \* longest list of extension names a device reports

ExtensionNames == {"VK_KHR_swapchain", "VK_KHR_maintenance1"}

SuitablePool ==
    {PhysicalDevice(f, e, fm, m, DefaultCaps) :
        f \in SeqsUpTo(QueueFamilyKinds, MaxFamilies),
        e \in SeqsUpTo(ExtensionNames, MaxExtensions),
        fm \in {<<>>, <<BGRA>>}, m \in {<<>>, <<"FIFO">>}}

InitSuitable ==
    /\ pc = "isDeviceSuitable"
    /\ devices \in {<<d>> : d \in SuitablePool}
    /\ framebufferSize = [width |-> WIDTH, height |-> HEIGHT]
    /\ SurfaceReady

IsDeviceSuitable ==
    /\ pc = "isDeviceSuitable"
    /\ indices' = findQueueFamilies(devices[1])
    /\ extensionsSupported' = <<checkDeviceExtensionSupport(devices[1])>>
    /\ queries' = selectionQueries(devices, 1)
    /\ verdicts' = <<isDeviceSuitable(devices[1])>>
    /\ Goto("isDeviceSuitable:return")
    /\ UNCHANGED <<calls, envVars, winVars, physicalDevice, devVars, swapVars, objVars>>

NextSuitable == IsDeviceSuitable

SpecSuitable == InitSuitable /\ [][NextSuitable]_vars

(***************************************************************************)
(* C22.  For every list of queue families, findQueueFamilies returns both  *)
(* roles resolved if and only if the device has a graphics-capable family  *)
(* and a family with presentation support; isDeviceSuitable never accepts  *)
(* a device with a role unresolved (SpecSuitable).                         *)
(***************************************************************************)
SuitabilityReturned == pc = "isDeviceSuitable:return"

C22_CompleteIffBothRoles ==
    SuitabilityReturned =>
        /\ has_value(indices.graphicsFamily) <=> GraphicsIndexes # {}
        /\ has_value(indices.presentFamily) <=> PresentIndexes # {}
        /\ (has_value(indices.graphicsFamily) /\ has_value(indices.presentFamily))
              <=> QueueCoverage(devices[1])
        /\ verdicts[1] =>
              has_value(indices.graphicsFamily) /\ has_value(indices.presentFamily)

C22_Witness ==
    /\ SuitabilityReturned
    /\ Len(Families) = 2
    /\ ~has_value(indices.presentFamily)
    /\ has_value(indices.graphicsFamily)
    /\ extensionsSupported = <<TRUE>>
    /\ Len(queries) = 1
    /\ queries[1].details.formats # <<>>
    /\ queries[1].details.presentModes # <<>>
    /\ ~verdicts[1]

C22_WitnessAccepted ==
    /\ SuitabilityReturned
    /\ verdicts[1]
    /\ indices.graphicsFamily # indices.presentFamily

(***************************************************************************)
(* C24.  checkDeviceExtensionSupport returns true if and only if the       *)
(* required extensions minus the available ones is empty, for every        *)
(* available list, the empty one and lists with duplicates included;       *)
(* isDeviceSuitable queries the swap-chain formats and present modes only  *)
(* of a device whose extensions are satisfied and treats the swap chain as *)
(* inadequate otherwise (SpecSuitable).                                    *)
(***************************************************************************)
RequiredMinusAvailable == Range(deviceExtensions) \ Range(devices[1].extensions)

C24_ExtensionsBySetDifference ==
    SuitabilityReturned =>
        /\ extensionsSupported[1] <=> RequiredMinusAvailable = {}
        /\ devices[1].extensions = <<>> => ~extensionsSupported[1]
        /\ queries # <<>> <=> extensionsSupported[1]
        /\ Len(queries) <= 1
        /\ ~extensionsSupported[1] => ~verdicts[1]
        /\ (extensionsSupported[1] /\ verdicts[1]) =>
              /\ queries[1].details.formats # <<>>
              /\ queries[1].details.presentModes # <<>>

C24_Witness ==
    /\ SuitabilityReturned
    /\ devices[1].extensions = <<"VK_KHR_swapchain", "VK_KHR_swapchain">>
    /\ extensionsSupported = <<TRUE>>
    /\ Len(queries) = 1
    /\ verdicts = <<TRUE>>

C24_WitnessUnsatisfied ==
    /\ SuitabilityReturned
    /\ devices[1].extensions = <<"VK_KHR_maintenance1", "VK_KHR_maintenance1">>
    /\ QueueCoverage(devices[1])
    /\ devices[1].formats # <<>> /\ devices[1].presentModes # <<>>
    /\ extensionsSupported = <<FALSE>>
    /\ queries = <<>>
    /\ verdicts = <<FALSE>>

(***************************************************************************)
(* C23.  cleanup destroys no object before an object that depends on it:   *)
(* command pool, framebuffers, pipeline, pipeline layout, render pass,     *)
(* image views and swap chain before the logical device; framebuffers      *)
(* before image views and render pass; the pipeline before its layout and  *)
(* the render pass; image views before the swap chain; the swap chain      *)
(* before the surface; device, surface and debug messenger before the      *)
(* instance.                                                               *)
(***************************************************************************)
\* <<a, b>>: a depends on b, so every a is to be destroyed before b
Dependencies ==
    {<<"commandPool", "device">>, <<"framebuffer", "device">>, <<"pipeline", "device">>,
     <<"pipelineLayout", "device">>, <<"renderPass", "device">>, <<"imageView", "device">>,
     <<"swapChain", "device">>,
     <<"framebuffer", "imageView">>, <<"framebuffer", "renderPass">>,
     <<"pipeline", "pipelineLayout">>, <<"pipeline", "renderPass">>,
     <<"imageView", "swapChain">>,
     <<"swapChain", "surface">>,
     <<"device", "instance">>, <<"surface", "instance">>, <<"debugMessenger", "instance">>}

DestroyedAt(obj) == {k \in 1..Len(calls) : IsDestroy(calls[k]) /\ calls[k].obj = obj}

CleanupRan == pc \in {"return", "exited"} /\ exception = "none"

C23_DependentsDestroyedFirst ==
    /\ \A d \in Dependencies :
          \A a \in DestroyedAt(d[1]), b \in DestroyedAt(d[2]) : a < b
    /\ CleanupRan =>
          /\ \A obj \in CleanupKinds \ {"debugMessenger"} : DestroyedAt(obj) # {}
          /\ Cardinality(DestroyedAt("framebuffer")) = Len(swapChainFramebuffers)
          /\ Cardinality(DestroyedAt("imageView")) = Len(swapChainImageViews)
          /\ enableValidationLayers => DestroyedAt("debugMessenger") # {}

C23_Witness ==
    /\ pc = "return"
    /\ enableValidationLayers
    /\ Len(swapChainImageViews) = MaxImages
    /\ Cardinality(DestroyedAt("imageView")) = MaxImages
    /\ DestroyedAt("instance") = {Len(calls)}

(***************************************************************************)
(* C25.  Once pickPhysicalDevice has returned normally, each later         *)
(* findQueueFamilies(physicalDevice), in createLogicalDevice,              *)
(* createSwapChain and createCommandPool, yields complete indices equal to *)
(* those computed during selection, so value() is never taken on an empty  *)
(* optional (the driver's answers do not change between the calls).        *)
(***************************************************************************)
SelectionReturned == physicalDevice # VK_NULL_HANDLE

GraphicsIndexesOf(d) == {i \in 0..(Len(d.queueFamilies) - 1) : d.queueFamilies[i + 1].graphics}
PresentIndexesOf(d) == {i \in 0..(Len(d.queueFamilies) - 1) : d.queueFamilies[i + 1].present}

IndicesOfSelection ==
    SelectionReturned =>
        /\ isComplete(indices)
        /\ value(indices.graphicsFamily) \in GraphicsIndexesOf(devices[physicalDevice])
        /\ value(indices.presentFamily) \in PresentIndexesOf(devices[physicalDevice])

LaterCallsAgree == (SelectionReturned /\ SelectionReturned') => indices' = indices

C25_LaterIndicesCompleteAndEqual ==
    /\ [](exception # bad_optional_access)
    /\ []IndicesOfSelection
    /\ [][LaterCallsAgree]_vars

C25_Witness ==
    /\ pc = "createCommandBuffer"
    /\ devices = <<DevNoPresent, DevSplit>>
    /\ physicalDevice = 2
    /\ indices = [graphicsFamily |-> {0}, presentFamily |-> {1}, inspected |-> 2]
    /\ graphicsQueue = {0}
    /\ presentQueue = {1}
    /\ poolInfo # {}

(***************************************************************************)
(* C26.  Whenever createSwapChain calls chooseSwapSurfaceFormat the list   *)
(* of candidate formats is non-empty, so the fallback to the first entry   *)
(* never reads an empty list: createSwapChain runs only for a device that  *)
(* isDeviceSuitable accepted, and it accepts none without formats and      *)
(* present modes.                                                          *)
(***************************************************************************)
\* the details the latest querySwapChainSupport call returned
LatestDetails == queries[Len(queries)].details

FormatWasChosen == surfaceFormat # {}

C26_FormatListNonEmpty ==
    /\ exitStatus # "SIGSEGV"
    /\ pc = "createSwapChain" =>
          /\ SelectionReturned
          /\ verdicts[physicalDevice]
          /\ querySwapChainSupport(devices[physicalDevice]).formats # <<>>
          /\ querySwapChainSupport(devices[physicalDevice]).presentModes # <<>>
    /\ FormatWasChosen =>
          /\ LatestDetails.formats # <<>>
          /\ ChosenFormat \in Range(LatestDetails.formats)

C26_Witness ==
    /\ devices = <<DevNoFormats, DevSplit>>
    /\ verdicts = <<FALSE, TRUE>>
    /\ physicalDevice = 2
    /\ FormatWasChosen
    /\ ChosenFormat = UNORM
    /\ pc = "createImageViews"

(***************************************************************************)
(* C27.  For every non-empty list of available present modes, the mode     *)
(* chooseSwapPresentMode returns is a member of the list, so the swap      *)
(* chain is never requested with a present mode the device did not report  *)
(* (SpecSwap).                                                             *)
(***************************************************************************)
ModeRequested == SwapInfo.presentMode

C27_ReturnedModeAvailable ==
    (SwapChainEntered /\ CandidateModes # <<>>) => ModeRequested \in Range(CandidateModes)

(***************************************************************************)
(* C27, amended.  The returned mode is a member of every list that holds   *)
(* FIFO or mailbox; for a list that holds neither the function still       *)
(* returns FIFO, a mode the device did not report.                         *)
(***************************************************************************)
C27_ReturnedModeAvailableWhenFifoListed ==
    (SwapChainEntered /\ CandidateModes # <<>>) =>
        /\ ({"FIFO", "MAILBOX"} \cap Range(CandidateModes) # {}) =>
              ModeRequested \in Range(CandidateModes)
        /\ ({"FIFO", "MAILBOX"} \cap Range(CandidateModes) = {}) => ModeRequested = "FIFO"

C27_Witness ==
    /\ SwapChainEntered
    /\ CandidateModes = <<"IMMEDIATE", "FIFO">>
    /\ ModeRequested = "FIFO"
    /\ pc = "createImageViews"

C27_WitnessUnreported ==
    /\ SwapChainEntered
    /\ CandidateModes = <<"IMMEDIATE", "IMMEDIATE">>
    /\ ModeRequested = "FIFO"
    /\ pc = "createImageViews"

(***************************************************************************)
(* C28.  On a run in which every creation succeeds and the window is       *)
(* closed, by process exit each application-owned handle (instance,        *)
(* surface, logical device, swap chain, every image view, render pass,     *)
(* pipeline layout, pipeline, every framebuffer, command pool, both shader *)
(* modules) has been destroyed exactly once, never twice and never before  *)
(* it was created; the debug messenger is destroyed if and only if it was  *)
(* created, that is, if and only if validation is enabled.                 *)
(***************************************************************************)
OwnedKinds ==
    {"instance", "surface", "device", "swapChain", "imageView", "renderPass",
     "pipelineLayout", "pipeline", "framebuffer", "commandPool", "shaderModule"}

\* the handles the call trace names: <<kind, number>>
TracedHandles ==
    {<<calls[k].obj, calls[k].n>> : k \in {j \in 1..Len(calls) : IsCreate(calls[j]) \/ IsDestroy(calls[j])}}

CreatesOf(h) == {k \in 1..Len(calls) : calls[k] = Create(h[1], h[2])}
DestroysOf(h) == {k \in 1..Len(calls) : calls[k] = Destroy(h[1], h[2])}

HandlesOfKind(obj) == {h \in TracedHandles : h[1] = obj}

C28_EachHandleDestroyedOnce ==
    /\ \A h \in TracedHandles :
          /\ Cardinality(CreatesOf(h)) = 1
          /\ Cardinality(DestroysOf(h)) <= 1
          /\ \A c \in CreatesOf(h), d \in DestroysOf(h) : c < d
    /\ CleanExit =>
          /\ \A h \in TracedHandles : Cardinality(DestroysOf(h)) = 1
          /\ \A obj \in OwnedKinds : HandlesOfKind(obj) # {}
          /\ HandlesOfKind("shaderModule") = {<<"shaderModule", 1>>, <<"shaderModule", 2>>}
          /\ Cardinality(HandlesOfKind("imageView")) = Len(swapChainImages)
          /\ Cardinality(HandlesOfKind("framebuffer")) = Len(swapChainImages)
          /\ HandlesOfKind("debugMessenger") # {} <=> enableValidationLayers

C28_Witness ==
    /\ CleanExit
    /\ ~enableValidationLayers
    /\ DestroysOf(<<"debugMessenger", 0>>) = {}
    /\ Len(swapChainImages) = MaxImages
    /\ Cardinality(DestroysOf(<<"framebuffer", MaxImages>>)) = 1

C28_WitnessValidation ==
    /\ CleanExit
    /\ enableValidationLayers
    /\ Cardinality(DestroysOf(<<"debugMessenger", 0>>)) = 1
    /\ Cardinality(DestroysOf(<<"shaderModule", 2>>)) = 1

(***************************************************************************)
(* C29.  createLogicalDevice requests exactly one queue per distinct queue *)
(* family among graphicsFamily and presentFamily: one queue-create entry   *)
(* when the two roles share an index, two entries with different indices   *)
(* otherwise; no family index appears in two entries, and the graphics and *)
(* the present queue are then retrieved from a family that was requested   *)
(* (SpecDevice).                                                           *)
(***************************************************************************)
LogicalDeviceRequested == queueCreateInfos # <<>>

LogicalDeviceCreated == Create("device", 0) \in Range(calls)

RequestedFamilies == {queueCreateInfos[k].queueFamilyIndex : k \in 1..Len(queueCreateInfos)}

RoleFamilies ==
    LET ind == findQueueFamilies(devices[physicalDevice])
    IN  ind.graphicsFamily \cup ind.presentFamily

C29_OneQueuePerDistinctFamily ==
    /\ LogicalDeviceRequested =>
          /\ RequestedFamilies = RoleFamilies
          /\ Len(queueCreateInfos) = Cardinality(RoleFamilies)
          /\ Len(queueCreateInfos) = IF indices.graphicsFamily = indices.presentFamily THEN 1 ELSE 2
          /\ \A a, b \in 1..Len(queueCreateInfos) :
                queueCreateInfos[a].queueFamilyIndex = queueCreateInfos[b].queueFamilyIndex
                    => a = b
          /\ \A k \in 1..Len(queueCreateInfos) : queueCreateInfos[k].queueCount = 1
    /\ LogicalDeviceCreated =>
          /\ LogicalDeviceRequested
          /\ graphicsQueue # {} /\ graphicsQueue \subseteq RequestedFamilies
          /\ presentQueue # {} /\ presentQueue \subseteq RequestedFamilies
    /\ (pc = "createLogicalDevice" \/ ~LogicalDeviceCreated) =>
          graphicsQueue = {} /\ presentQueue = {}

C29_Witness ==
    /\ LogicalDeviceCreated
    /\ Len(queueCreateInfos) = 1
    /\ graphicsQueue = {1}
    /\ presentQueue = {1}
    /\ Len(devices[1].queueFamilies) = MaxFamilies

C29_WitnessTwoFamilies ==
    /\ LogicalDeviceCreated
    /\ Len(queueCreateInfos) = 2
    /\ graphicsQueue = {2}
    /\ presentQueue = {0}
    /\ queueCreateInfos[1].queueFamilyIndex = 0
    /\ queueCreateInfos[2].queueFamilyIndex = 2

(***************************************************************************)
(* C30.  If startup succeeds and the window eventually reports that it     *)
(* should close, run eventually leaves mainLoop, executes cleanup exactly  *)
(* once and the process exits with success status; while in mainLoop no    *)
(* create or destroy call is issued, and cleanup is never executed before  *)
(* mainLoop has ended (SpecLive).                                          *)
(***************************************************************************)
InMainLoop == pc = "mainLoop"

CloseReported == InMainLoop /\ windowShouldClose

CleanupExecutions == Cardinality(DestroysOf(<<"instance", 0>>))

CleanupExecuted == window = "destroyed" \/ DestroysOf(<<"instance", 0>>) # {}

ExitedAfterOneCleanup ==
    /\ CleanExit
    /\ CleanupExecutions = 1
    /\ window = "destroyed"
    /\ exception = "none"

MainLoopIssuesNoCall == InMainLoop => calls' = calls

CleanupOnlyAfterMainLoop ==
    CleanupExecuted =>
        /\ pc \in {"return", "exited"}
        /\ windowShouldClose
        /\ Ev("allocate", "commandBuffer", 0) \in Range(calls)

C30_CloseLeadsToCleanExit ==
    /\ CloseReported ~> ExitedAfterOneCleanup
    /\ [][MainLoopIssuesNoCall]_vars
    /\ []CleanupOnlyAfterMainLoop
    /\ [](CleanupExecutions <= 1)

C30_Witness ==
    /\ ExitedAfterOneCleanup
    /\ windowShouldClose
    /\ devices = <<DevSplit>>
    /\ Len(swapChainImages) = 2

====
